---------------------------- MODULE Spec2Model ----------------------------
(***************************************************************************)
(* Model of the xk6-text-encoding extension: the UTF-8 facade              *)
(* (src/unnamed/part_002: EncodeUTF8, DecodeUTF8, the Base64 compositions  *)
(* and the validity predicates) and the codec registry with its            *)
(* TextEncoder / TextDecoder handles (src/text_encoding.go and its         *)
(* Go-API variant src/unnamed/part_003).                                   *)
(*                                                                         *)
(* Strings and byte slices.  A Go string and a []byte are both byte        *)
(* sequences.  A value is the record                                       *)
(*     [nil, rep, unit, body]                                              *)
(* and stands for the bytes  unit^rep \o body  (rep copies of unit, then   *)
(* body); nil marks a nil []byte.  The run-length part lets the model hold *)
(* inputs next to MaxInputSize (100 MiB) with MaxInputSize at its real     *)
(* value; every operator below is exact on this representation.            *)
(***************************************************************************)
EXTENDS Integers, Sequences, FiniteSets, TLC

VARIABLES
  input,     \* the byte/string argument the script passes to the operations
  labelArg,  \* the label argument the script passes to the registry / constructors
  call,      \* the latest call: [op, in, val, err, errArg, viaCodec]
  prev,      \* the call whose result was the argument of `call` (or NoCall)
  encoder,   \* the TextEncoder handle the script holds (or NoHandle)
  decoder,   \* the TextDecoder handle the script holds (or NoHandle)
  goroutines, \* the goroutines using the module at the same time, each with
              \* its position in the call it is running
  buffers,   \* the bytes.Buffer objects allocated so far: buffers[b] is Len()
  bufferPool \* the buffers lying in the sync.Pool

vars == <<input, labelArg, call, prev, encoder, decoder,
          goroutines, buffers, bufferPool>>

\* the variables of goroutines and buffer pool, which a single script leaves alone
poolVars == <<goroutines, buffers, bufferPool>>

---------------------------------------------------------------------------
(* Bounds of the model *)

\* longest explicit byte sequence of a short input
MaxBody == 3
\* longest explicit tail behind a run-length prefix of a large input
MaxTail == 2
\* most blanks put before and after a label
MaxPad == 1
\* longest text handed to an encoder or decoder handle
MaxText == 2

---------------------------------------------------------------------------
(* Byte strings *)

\* MaxInputSize is the maximum size of input strings
MaxInputSize == 100 * 1024 * 1024

Str(rep, unit, body) ==
  [nil |-> FALSE, rep |-> rep, unit |-> IF rep = 0 THEN <<>> ELSE unit, body |-> body]

\* the empty string "" and the empty, non-nil slice []byte{}
EmptyStr == Str(0, <<>>, <<>>)

\* a nil []byte
NilBytes == [nil |-> TRUE, rep |-> 0, unit |-> <<>>, body |-> <<>>]

\* len(s)
StrLen(s) == s.rep * Len(s.unit) + Len(s.body)

RECURSIVE Repeat(_, _)
Repeat(u, n) == IF n = 0 THEN <<>> ELSE u \o Repeat(u, n - 1)

---------------------------------------------------------------------------
(* unicode/utf8 as called by the facade *)

RuneSelf == 128
locb == 128
hicb == 191

\* utf8.first and utf8.acceptRanges: size of the sequence a lead byte opens
\* (0 for the bytes that open none) and the range of its second byte
First(b) ==
  CASE b < 128              -> [size |-> 1, lo |-> 0,    hi |-> 0]
    [] b >= 194 /\ b <= 223 -> [size |-> 2, lo |-> locb, hi |-> hicb]
    [] b = 224              -> [size |-> 3, lo |-> 160,  hi |-> hicb]
    [] b >= 225 /\ b <= 236 -> [size |-> 3, lo |-> locb, hi |-> hicb]
    [] b = 237              -> [size |-> 3, lo |-> locb, hi |-> 159]
    [] b >= 238 /\ b <= 239 -> [size |-> 3, lo |-> locb, hi |-> hicb]
    [] b = 240              -> [size |-> 4, lo |-> 144,  hi |-> hicb]
    [] b >= 241 /\ b <= 243 -> [size |-> 4, lo |-> locb, hi |-> hicb]
    [] b = 244              -> [size |-> 4, lo |-> locb, hi |-> 143]
    [] OTHER                -> [size |-> 0, lo |-> 0,    hi |-> 0]

\* the loop of utf8.Valid from (1-based) index i
RECURSIVE ValidFrom(_, _)
ValidFrom(p, i) ==
  IF i > Len(p) THEN TRUE
  ELSE IF p[i] < RuneSelf THEN ValidFrom(p, i + 1)
  ELSE LET x == First(p[i]) IN
       IF x.size = 0 THEN FALSE
       ELSE IF i - 1 + x.size > Len(p) THEN FALSE
       ELSE IF p[i + 1] < x.lo \/ x.hi < p[i + 1] THEN FALSE
       ELSE IF x.size = 2 THEN ValidFrom(p, i + 2)
       ELSE IF p[i + 2] < locb \/ hicb < p[i + 2] THEN FALSE
       ELSE IF x.size = 3 THEN ValidFrom(p, i + 3)
       ELSE IF p[i + 3] < locb \/ hicb < p[i + 3] THEN FALSE
       ELSE ValidFrom(p, i + 4)

\* utf8.Valid / utf8.ValidString on unit^rep \o body.  With two or more copies
\* of unit the scan passes a unit boundary at a rune start, so the whole is
\* valid exactly when unit and body are.
Valid(s) ==
  CASE s.rep = 0 -> ValidFrom(s.body, 1)
    [] s.rep = 1 -> ValidFrom(s.unit \o s.body, 1)
    [] OTHER     -> ValidFrom(s.unit, 1) /\ ValidFrom(s.body, 1)

\* the loop of utf8.RuneCountInString from index i: a byte that opens no
\* well-formed sequence counts as one rune
RECURSIVE RuneCountFrom(_, _)
RuneCountFrom(p, i) ==
  IF i > Len(p) THEN 0
  ELSE IF p[i] < RuneSelf THEN 1 + RuneCountFrom(p, i + 1)
  ELSE LET x == First(p[i]) IN
       IF x.size = 0 THEN 1 + RuneCountFrom(p, i + 1)
       ELSE IF i - 1 + x.size > Len(p) THEN 1 + RuneCountFrom(p, i + 1)
       ELSE IF p[i + 1] < x.lo \/ x.hi < p[i + 1] THEN 1 + RuneCountFrom(p, i + 1)
       ELSE IF x.size = 2 THEN 1 + RuneCountFrom(p, i + 2)
       ELSE IF p[i + 2] < locb \/ hicb < p[i + 2] THEN 1 + RuneCountFrom(p, i + 1)
       ELSE IF x.size = 3 THEN 1 + RuneCountFrom(p, i + 3)
       ELSE IF p[i + 3] < locb \/ hicb < p[i + 3] THEN 1 + RuneCountFrom(p, i + 1)
       ELSE 1 + RuneCountFrom(p, i + 4)

\* utf8.RuneCountInString on unit^rep \o body, called on valid strings only:
\* with two or more copies the unit and the body are valid on their own
RuneCountInString(s) ==
  IF s.rep <= 1 THEN RuneCountFrom(IF s.rep = 1 THEN s.unit \o s.body ELSE s.body, 1)
  ELSE s.rep * RuneCountFrom(s.unit, 1) + RuneCountFrom(s.body, 1)

---------------------------------------------------------------------------
(* encoding/base64, StdEncoding *)

PadChar == 61

\* the StdEncoding alphabet: A-Z a-z 0-9 + /
EncodeStd(v) ==
  CASE v < 26 -> 65 + v
    [] v < 52 -> 97 + (v - 26)
    [] v < 62 -> 48 + (v - 52)
    [] v = 62 -> 43
    [] OTHER  -> 47

\* StdEncoding.decodeMap: 255 for a byte outside the alphabet
DecodeMap(c) ==
  CASE c >= 65 /\ c <= 90  -> c - 65
    [] c >= 97 /\ c <= 122 -> c - 97 + 26
    [] c >= 48 /\ c <= 57  -> c - 48 + 52
    [] c = 43              -> 62
    [] c = 47              -> 63
    [] OTHER               -> 255

\* Encoding.Encode on an explicit byte sequence
RECURSIVE EncodeToSeq(_)
EncodeToSeq(b) ==
  IF Len(b) = 0 THEN <<>>
  ELSE IF Len(b) >= 3 THEN
    LET v == b[1] * 65536 + b[2] * 256 + b[3] IN
    << EncodeStd(v \div 262144), EncodeStd((v \div 4096) % 64),
       EncodeStd((v \div 64) % 64), EncodeStd(v % 64) >>
      \o EncodeToSeq(SubSeq(b, 4, Len(b)))
  ELSE IF Len(b) = 2 THEN
    LET v == b[1] * 65536 + b[2] * 256 IN
    << EncodeStd(v \div 262144), EncodeStd((v \div 4096) % 64),
       EncodeStd((v \div 64) % 64), PadChar >>
  ELSE
    LET v == b[1] * 65536 IN
    << EncodeStd(v \div 262144), EncodeStd((v \div 4096) % 64), PadChar, PadChar >>

\* copies of a unit of length n that fill whole groups of g bytes
Group(n, g) == IF n % g = 0 THEN 1 ELSE IF (2 * n) % g = 0 THEN 2 ELSE g

\* StdEncoding.EncodeToString on unit^rep \o body: whole 3-byte groups of the
\* run encode alike, the rest of the run is encoded with the body
EncodeToString(s) ==
  IF s.rep = 0 THEN Str(0, <<>>, EncodeToSeq(s.body))
  ELSE LET m == Group(Len(s.unit), 3) IN
       Str(s.rep \div m, EncodeToSeq(Repeat(s.unit, m)),
           EncodeToSeq(Repeat(s.unit, s.rep % m) \o s.body))

\* the decoder skips '\r' and '\n' wherever they stand
StripNL(t) == SelectSeq(t, LAMBDA c : c # 10 /\ c # 13)

CorruptInput == [ok |-> FALSE, bytes |-> <<>>]

\* Encoding.decodeQuantum, quantum by quantum, on a sequence free of newlines:
\* four alphabet characters give three bytes; padding is accepted only as
\* "xx==" or "xxx=" and only at the very end; a short last quantum is corrupt
RECURSIVE DecodeSeq(_)
DecodeSeq(t) ==
  IF Len(t) = 0 THEN [ok |-> TRUE, bytes |-> <<>>]
  ELSE IF Len(t) < 4 THEN CorruptInput
  ELSE LET d1 == DecodeMap(t[1])
           d2 == DecodeMap(t[2])
           d3 == DecodeMap(t[3])
           d4 == DecodeMap(t[4])
       IN
       IF d1 = 255 \/ d2 = 255 THEN CorruptInput
       ELSE IF d3 = 255 THEN
         IF t[3] = PadChar /\ t[4] = PadChar /\ Len(t) = 4
         THEN [ok |-> TRUE, bytes |-> << d1 * 4 + d2 \div 16 >>]
         ELSE CorruptInput
       ELSE IF d4 = 255 THEN
         IF t[4] = PadChar /\ Len(t) = 4
         THEN [ok |-> TRUE,
               bytes |-> << d1 * 4 + d2 \div 16, (d2 % 16) * 16 + d3 \div 4 >>]
         ELSE CorruptInput
       ELSE LET rest == DecodeSeq(SubSeq(t, 5, Len(t))) IN
         IF rest.ok
         THEN [ok |-> TRUE,
               bytes |-> << d1 * 4 + d2 \div 16, (d2 % 16) * 16 + d3 \div 4,
                            (d3 % 4) * 64 + d4 >> \o rest.bytes]
         ELSE CorruptInput

\* StdEncoding.DecodeString on unit^rep \o body: [ok, val].  Two or more copies
\* of a unit holding a byte outside the alphabet are corrupt (padding would be
\* followed by more input); otherwise whole 4-character groups of the run
\* decode alike and the rest of the run is decoded with the body.
DecodeString(s) ==
  LET u == StripNL(s.unit)
      b == StripNL(s.body)
      bad == [ok |-> FALSE, val |-> EmptyStr]
      plain(t) == LET d == DecodeSeq(t) IN
                  IF d.ok THEN [ok |-> TRUE, val |-> Str(0, <<>>, d.bytes)] ELSE bad
  IN
  IF s.rep = 0 \/ Len(u) = 0 THEN plain(b)
  ELSE IF s.rep = 1 THEN plain(u \o b)
  ELSE IF \E i \in 1..Len(u) : DecodeMap(u[i]) = 255 THEN bad
  ELSE LET m == Group(Len(u), 4)
           head == DecodeSeq(Repeat(u, m))
           rest == DecodeSeq(Repeat(u, s.rep % m) \o b)
       IN IF rest.ok
          THEN [ok |-> TRUE, val |-> Str(s.rep \div m, head.bytes, rest.bytes)]
          ELSE bad

---------------------------------------------------------------------------
(* The UTF-8 facade, src/unnamed/part_002 *)

ErrInvalidUTF8 == "invalid UTF-8 bytes"
ErrInvalidBase64 == "failed to decode base64"
ErrInvalidUTF8Base64 == "decoded data is not valid UTF-8"
ErrTooLarge == "input size exceeds maximum allowed size of %d bytes"
\* the nil error
NoErr == "nil"

Result(val, err) == [val |-> val, err |-> err]

\* a result reached after the Base64 decoder or a transcoder was called
Via(r) == [val |-> r.val, err |-> r.err, viaCodec |-> TRUE]

\* EncodeUTF8 with the size check off by one (>= for >)
EncodeUTF8_SizeOffByOne(text) ==
  IF StrLen(text) = 0 THEN Result(EmptyStr, NoErr)
  ELSE IF StrLen(text) >= MaxInputSize THEN Result(NilBytes, ErrTooLarge)
  ELSE IF ~Valid(text) THEN Result(NilBytes, ErrInvalidUTF8)
  ELSE Result(text, NoErr)

EncodeUTF8(text) ==
  IF StrLen(text) = 0 THEN Result(EmptyStr, NoErr)
  ELSE IF StrLen(text) > MaxInputSize THEN Result(NilBytes, ErrTooLarge)
  ELSE IF ~Valid(text) THEN Result(NilBytes, ErrInvalidUTF8)
  ELSE Result(text, NoErr)

EncodeUTF8ToBase64(text) ==
  IF StrLen(text) = 0 THEN Result(EmptyStr, NoErr)
  ELSE IF StrLen(text) > MaxInputSize THEN Result(EmptyStr, ErrTooLarge)
  ELSE IF ~Valid(text) THEN Result(EmptyStr, ErrInvalidUTF8)
  ELSE Result(EncodeToString(text), NoErr)

\* string(data): the bytes of data, never nil
StringOf(data) == [data EXCEPT !.nil = FALSE]

\* DecodeUTF8 without the utf8.Valid check
DecodeUTF8_NoValidation(data) ==
  IF StrLen(data) = 0 THEN Result(EmptyStr, NoErr)
  ELSE IF StrLen(data) > MaxInputSize THEN Result(EmptyStr, ErrTooLarge)
  ELSE Result(StringOf(data), NoErr)

\* DecodeUTF8 validating before it checks the size
DecodeUTF8_ValidateFirst(data) ==
  IF StrLen(data) = 0 THEN Result(EmptyStr, NoErr)
  ELSE IF ~Valid(data) THEN Result(EmptyStr, ErrInvalidUTF8)
  ELSE IF StrLen(data) > MaxInputSize THEN Result(EmptyStr, ErrTooLarge)
  ELSE Result(StringOf(data), NoErr)

DecodeUTF8(data) ==
  IF StrLen(data) = 0 THEN Result(EmptyStr, NoErr)
  ELSE IF StrLen(data) > MaxInputSize THEN Result(EmptyStr, ErrTooLarge)
  ELSE IF ~Valid(data) THEN Result(EmptyStr, ErrInvalidUTF8)
  ELSE Result(StringOf(data), NoErr)

\* DecodeUTF8FromBase64 reporting a payload that is not UTF-8 as bad Base64
DecodeUTF8FromBase64_OneError(encodedData) ==
  IF StrLen(encodedData) = 0 THEN Result(EmptyStr, NoErr)
  ELSE IF StrLen(encodedData) > MaxInputSize THEN Result(EmptyStr, ErrTooLarge)
  ELSE LET d == DecodeString(encodedData) IN
       IF ~d.ok \/ ~Valid(d.val) THEN Via(Result(EmptyStr, ErrInvalidBase64))
       ELSE Via(Result(d.val, NoErr))

DecodeUTF8FromBase64(encodedData) ==
  IF StrLen(encodedData) = 0 THEN Result(EmptyStr, NoErr)
  ELSE IF StrLen(encodedData) > MaxInputSize THEN Result(EmptyStr, ErrTooLarge)
  ELSE LET d == DecodeString(encodedData) IN
       IF ~d.ok THEN Via(Result(EmptyStr, ErrInvalidBase64))
       ELSE IF ~Valid(d.val) THEN Via(Result(EmptyStr, ErrInvalidUTF8Base64))
       ELSE Via(Result(d.val, NoErr))

\* CountUTF8Bytes counting runes
CountUTF8Bytes_Runes(text) ==
  IF StrLen(text) = 0 THEN Result(0, NoErr)
  ELSE IF StrLen(text) > MaxInputSize THEN Result(0, ErrTooLarge)
  ELSE IF ~Valid(text) THEN Result(0, ErrInvalidUTF8)
  ELSE Result(RuneCountInString(text), NoErr)

\* CountUTF8Bytes without the utf8.ValidString check
CountUTF8Bytes_NoValidation(text) ==
  IF StrLen(text) = 0 THEN Result(0, NoErr)
  ELSE IF StrLen(text) > MaxInputSize THEN Result(0, ErrTooLarge)
  ELSE Result(StrLen(text), NoErr)

CountUTF8Bytes(text) ==
  IF StrLen(text) = 0 THEN Result(0, NoErr)
  ELSE IF StrLen(text) > MaxInputSize THEN Result(0, ErrTooLarge)
  ELSE IF ~Valid(text) THEN Result(0, ErrInvalidUTF8)
  ELSE Result(StrLen(text), NoErr)

CountUTF8Runes(text) ==
  IF StrLen(text) = 0 THEN Result(0, NoErr)
  ELSE IF StrLen(text) > MaxInputSize THEN Result(0, ErrTooLarge)
  ELSE IF ~Valid(text) THEN Result(0, ErrInvalidUTF8)
  ELSE Result(RuneCountInString(text), NoErr)

\* IsValidUTF8 with the size check off by one (>= for >)
IsValidUTF8_SizeOffByOne(text) ==
  IF StrLen(text) = 0 THEN Result(TRUE, NoErr)
  ELSE IF StrLen(text) >= MaxInputSize THEN Result(FALSE, ErrTooLarge)
  ELSE Result(Valid(text), NoErr)

IsValidUTF8(text) ==
  IF StrLen(text) = 0 THEN Result(TRUE, NoErr)
  ELSE IF StrLen(text) > MaxInputSize THEN Result(FALSE, ErrTooLarge)
  ELSE Result(Valid(text), NoErr)

\* IsValidUTF8Bytes answering from the size check alone
IsValidUTF8Bytes_SizeOnly(data) ==
  IF StrLen(data) = 0 THEN Result(TRUE, NoErr)
  ELSE IF StrLen(data) > MaxInputSize THEN Result(FALSE, ErrTooLarge)
  ELSE Result(TRUE, NoErr)

IsValidUTF8Bytes(data) ==
  IF StrLen(data) = 0 THEN Result(TRUE, NoErr)
  ELSE IF StrLen(data) > MaxInputSize THEN Result(FALSE, ErrTooLarge)
  ELSE Result(Valid(data), NoErr)

---------------------------------------------------------------------------
(* The codec registry, src/text_encoding.go.  A label is a sequence of      *)
(* characters, each a one-character string; "NBSP" and "KELVIN" stand for   *)
(* U+00A0 and U+212A, which strings.TrimSpace and strings.ToLower treat as  *)
(* white space and as a capital K.                                          *)

UpperLetters == << "A", "B", "C", "D", "E", "F", "G", "H", "I", "J", "K", "L", "M",
                   "N", "O", "P", "Q", "R", "S", "T", "U", "V", "W", "X", "Y", "Z" >>
LowerLetters == << "a", "b", "c", "d", "e", "f", "g", "h", "i", "j", "k", "l", "m",
                   "n", "o", "p", "q", "r", "s", "t", "u", "v", "w", "x", "y", "z" >>

\* unicode.ToLower
LowerRune(c) ==
  IF \E i \in 1..26 : UpperLetters[i] = c
  THEN LowerLetters[CHOOSE i \in 1..26 : UpperLetters[i] = c]
  ELSE IF c = "KELVIN" THEN "k" ELSE c

\* strings.ToLower
ToLower(l) == [i \in 1..Len(l) |-> LowerRune(l[i])]

\* unicode.IsSpace
IsSpace(c) == c \in {" ", "\t", "\n", "\r", "\f", "VT", "NEL", "NBSP"}

\* strings.TrimSpace: the slice between the first and the last character that
\* is not white space
TrimSpace(l) ==
  LET keep == {i \in 1..Len(l) : ~IsSpace(l[i])} IN
  IF keep = {} THEN <<>>
  ELSE SubSeq(l, CHOOSE i \in keep : \A j \in keep : i <= j,
                 CHOOSE i \in keep : \A j \in keep : j <= i)

LblUTF8 == <<"u", "t", "f", "-", "8">>
LblUTF8NoDash == <<"u", "t", "f", "8">>

ErrUnsupported == "unsupported encoding: %s"
ErrEncodeFailed == "failed to encode text: %w"
ErrDecodeFailed == "failed to decode data: %w"
NilEncoding == "nil"

\* the switch of getEncoding: the labels of each case and the codec it returns
EncodingTable == <<
    [labels |-> {<<"u", "t", "f", "-", "8">>, <<"u", "t", "f", "8">>},
     enc |-> "unicode.UTF8"],
    [labels |-> {<<"u", "t", "f", "-", "1", "6">>, <<"u", "t", "f", "1", "6">>},
     enc |-> "unicode.UTF16(unicode.LittleEndian, unicode.UseBOM)"],
    [labels |-> {<<"u", "t", "f", "-", "1", "6", "l", "e">>, <<"u", "t", "f", "1", "6", "l", "e">>},
     enc |-> "unicode.UTF16(unicode.LittleEndian, unicode.IgnoreBOM)"],
    [labels |-> {<<"u", "t", "f", "-", "1", "6", "b", "e">>, <<"u", "t", "f", "1", "6", "b", "e">>},
     enc |-> "unicode.UTF16(unicode.BigEndian, unicode.IgnoreBOM)"],
    [labels |-> {<<"i", "s", "o", "-", "8", "8", "5", "9", "-", "1">>, <<"l", "a", "t", "i", "n", "1">>},
     enc |-> "charmap.ISO8859_1"],
    [labels |-> {<<"i", "s", "o", "-", "8", "8", "5", "9", "-", "2">>, <<"l", "a", "t", "i", "n", "2">>},
     enc |-> "charmap.ISO8859_2"],
    [labels |-> {<<"i", "s", "o", "-", "8", "8", "5", "9", "-", "3">>, <<"l", "a", "t", "i", "n", "3">>},
     enc |-> "charmap.ISO8859_3"],
    [labels |-> {<<"i", "s", "o", "-", "8", "8", "5", "9", "-", "4">>, <<"l", "a", "t", "i", "n", "4">>},
     enc |-> "charmap.ISO8859_4"],
    [labels |-> {<<"i", "s", "o", "-", "8", "8", "5", "9", "-", "5">>},
     enc |-> "charmap.ISO8859_5"],
    [labels |-> {<<"i", "s", "o", "-", "8", "8", "5", "9", "-", "6">>},
     enc |-> "charmap.ISO8859_6"],
    [labels |-> {<<"i", "s", "o", "-", "8", "8", "5", "9", "-", "7">>},
     enc |-> "charmap.ISO8859_7"],
    [labels |-> {<<"i", "s", "o", "-", "8", "8", "5", "9", "-", "8">>},
     enc |-> "charmap.ISO8859_8"],
    [labels |-> {<<"i", "s", "o", "-", "8", "8", "5", "9", "-", "9">>, <<"l", "a", "t", "i", "n", "5">>},
     enc |-> "charmap.ISO8859_9"],
    [labels |-> {<<"i", "s", "o", "-", "8", "8", "5", "9", "-", "1", "0">>, <<"l", "a", "t", "i", "n", "6">>},
     enc |-> "charmap.ISO8859_10"],
    [labels |-> {<<"i", "s", "o", "-", "8", "8", "5", "9", "-", "1", "3">>, <<"l", "a", "t", "i", "n", "7">>},
     enc |-> "charmap.ISO8859_13"],
    [labels |-> {<<"i", "s", "o", "-", "8", "8", "5", "9", "-", "1", "4">>, <<"l", "a", "t", "i", "n", "8">>},
     enc |-> "charmap.ISO8859_14"],
    [labels |-> {<<"i", "s", "o", "-", "8", "8", "5", "9", "-", "1", "5">>, <<"l", "a", "t", "i", "n", "9">>},
     enc |-> "charmap.ISO8859_15"],
    [labels |-> {<<"i", "s", "o", "-", "8", "8", "5", "9", "-", "1", "6">>, <<"l", "a", "t", "i", "n", "1", "0">>},
     enc |-> "charmap.ISO8859_16"],
    [labels |-> {<<"w", "i", "n", "d", "o", "w", "s", "-", "1", "2", "5", "0">>},
     enc |-> "charmap.Windows1250"],
    [labels |-> {<<"w", "i", "n", "d", "o", "w", "s", "-", "1", "2", "5", "1">>},
     enc |-> "charmap.Windows1251"],
    [labels |-> {<<"w", "i", "n", "d", "o", "w", "s", "-", "1", "2", "5", "2">>},
     enc |-> "charmap.Windows1252"],
    [labels |-> {<<"w", "i", "n", "d", "o", "w", "s", "-", "1", "2", "5", "3">>},
     enc |-> "charmap.Windows1253"],
    [labels |-> {<<"w", "i", "n", "d", "o", "w", "s", "-", "1", "2", "5", "4">>},
     enc |-> "charmap.Windows1254"],
    [labels |-> {<<"w", "i", "n", "d", "o", "w", "s", "-", "1", "2", "5", "5">>},
     enc |-> "charmap.Windows1255"],
    [labels |-> {<<"w", "i", "n", "d", "o", "w", "s", "-", "1", "2", "5", "6">>},
     enc |-> "charmap.Windows1256"],
    [labels |-> {<<"w", "i", "n", "d", "o", "w", "s", "-", "1", "2", "5", "7">>},
     enc |-> "charmap.Windows1257"],
    [labels |-> {<<"w", "i", "n", "d", "o", "w", "s", "-", "1", "2", "5", "8">>},
     enc |-> "charmap.Windows1258"],
    [labels |-> {<<"k", "o", "i", "8", "-", "r">>},
     enc |-> "charmap.KOI8R"],
    [labels |-> {<<"k", "o", "i", "8", "-", "u">>},
     enc |-> "charmap.KOI8U"],
    [labels |-> {<<"s", "h", "i", "f", "t", "-", "j", "i", "s">>, <<"s", "h", "i", "f", "t", "_", "j", "i", "s">>, <<"s", "j", "i", "s">>},
     enc |-> "japanese.ShiftJIS"],
    [labels |-> {<<"e", "u", "c", "-", "j", "p">>, <<"e", "u", "c", "j", "p">>},
     enc |-> "japanese.EUCJP"],
    [labels |-> {<<"i", "s", "o", "-", "2", "0", "2", "2", "-", "j", "p">>, <<"i", "s", "o", "2", "0", "2", "2", "j", "p">>},
     enc |-> "japanese.ISO2022JP"],
    [labels |-> {<<"g", "b", "k">>},
     enc |-> "simplifiedchinese.GBK"],
    [labels |-> {<<"g", "b", "1", "8", "0", "3", "0">>},
     enc |-> "simplifiedchinese.GB18030"],
    [labels |-> {<<"b", "i", "g", "5">>},
     enc |-> "traditionalchinese.Big5"],
    [labels |-> {<<"e", "u", "c", "-", "k", "r">>, <<"e", "u", "c", "k", "r">>},
     enc |-> "korean.EUCKR"]
>>

TableRows(n) == {r \in 1..Len(EncodingTable) : n \in EncodingTable[r].labels}

Unsupported(n) == [val |-> NilEncoding, err |-> ErrUnsupported, errArg |-> n]
Resolved(n) ==
  [val |-> EncodingTable[CHOOSE r \in TableRows(n) : TRUE].enc, err |-> NoErr,
   errArg |-> <<>>]

\* getEncoding that matches a label by its prefix
getEncoding_PrefixMatch(label) ==
  LET n == ToLower(TrimSpace(label))
      hits == {k \in 0..Len(n) : TableRows(SubSeq(n, 1, k)) # {}}
  IN IF hits = {} THEN Unsupported(n)
     ELSE Resolved(SubSeq(n, 1, CHOOSE k \in hits : \A j \in hits : j <= k))

\* getEncoding with the alias "latin1" on the case of windows-1252
getEncoding_Latin1Moved(label) ==
  LET n == ToLower(TrimSpace(label)) IN
  IF TableRows(n) = {} THEN Unsupported(n)
  ELSE IF n = <<"l", "a", "t", "i", "n", "1">>
  THEN [Resolved(n) EXCEPT !.val = "charmap.Windows1252"]
  ELSE Resolved(n)

\* getEncoding without strings.ToLower
getEncoding_NoLower(label) ==
  LET n == TrimSpace(label) IN
  IF TableRows(n) = {} THEN Unsupported(n) ELSE Resolved(n)

\* getEncoding: [val, err, errArg], the codec (or nil) and the error with the
\* label it was formatted with
getEncoding(label) ==
  LET n == ToLower(TrimSpace(label)) IN
  IF TableRows(n) = {} THEN Unsupported(n) ELSE Resolved(n)

\* Utils.IsValidEncoding
IsValidEncoding(l) == getEncoding(l).err = NoErr

\* UTF8ByteLength counting runes
UTF8ByteLength_RuneCount(str) == RuneCountInString(str)

\* Utils.UTF8ByteLength: len(str)
UTF8ByteLength(str) == StrLen(str)

NoArg == [given |-> FALSE, text |-> <<>>]
NoHandle == [made |-> FALSE, encoding |-> NilEncoding, label |-> <<>>]
Handle(enc, l) == [made |-> TRUE, encoding |-> enc, label |-> l]

\* the label a constructor starts from: the first argument of the JS
\* constructor call if there is one, else ""
ArgLabel(arg) == IF arg.given THEN arg.text ELSE <<>>

\* a constructor that keeps the handle although getEncoding failed
NewTextEncoder_IgnoreErr(arg) ==
  LET l == IF ArgLabel(arg) = <<>> THEN LblUTF8 ELSE ArgLabel(arg)
      e == getEncoding(l)
  IN [val |-> Handle(e.val, l), err |-> e.err, errArg |-> e.errArg]

\* a constructor without the default label
NewTextEncoder_NoDefault(arg) ==
  LET l == ArgLabel(arg)
      e == getEncoding(l)
  IN IF e.err # NoErr THEN [val |-> NoHandle, err |-> e.err, errArg |-> e.errArg]
     ELSE [val |-> Handle(e.val, l), err |-> NoErr, errArg |-> <<>>]

\* textEncoderClass / NewTextEncoder: the handle, or the error thrown
NewTextEncoder(arg) ==
  LET l == IF ArgLabel(arg) = <<>> THEN LblUTF8 ELSE ArgLabel(arg)
      e == getEncoding(l)
  IN IF e.err # NoErr THEN [val |-> NoHandle, err |-> e.err, errArg |-> e.errArg]
     ELSE [val |-> Handle(e.val, l), err |-> NoErr, errArg |-> <<>>]

\* a constructor taking a label of white space only for the default
NewTextDecoder_BlankDefault(arg) ==
  LET l == IF TrimSpace(ArgLabel(arg)) = <<>> THEN LblUTF8 ELSE ArgLabel(arg)
      e == getEncoding(l)
  IN IF e.err # NoErr THEN [val |-> NoHandle, err |-> e.err, errArg |-> e.errArg]
     ELSE [val |-> Handle(e.val, l), err |-> NoErr, errArg |-> <<>>]

\* textDecoderClass / NewTextDecoder
NewTextDecoder(arg) ==
  LET l == IF ArgLabel(arg) = <<>> THEN LblUTF8 ELSE ArgLabel(arg)
      e == getEncoding(l)
  IN IF e.err # NoErr THEN [val |-> NoHandle, err |-> e.err, errArg |-> e.errArg]
     ELSE [val |-> Handle(e.val, l), err |-> NoErr, errArg |-> <<>>]

\* GetSupportedEncodings listing one label for each codec
GetSupportedEncodings_NoAliases == <<
    <<"u", "t", "f", "-", "8">>,
    <<"u", "t", "f", "-", "1", "6">>,
    <<"u", "t", "f", "-", "1", "6", "l", "e">>,
    <<"u", "t", "f", "-", "1", "6", "b", "e">>,
    <<"i", "s", "o", "-", "8", "8", "5", "9", "-", "1">>,
    <<"i", "s", "o", "-", "8", "8", "5", "9", "-", "2">>,
    <<"i", "s", "o", "-", "8", "8", "5", "9", "-", "3">>,
    <<"i", "s", "o", "-", "8", "8", "5", "9", "-", "4">>,
    <<"i", "s", "o", "-", "8", "8", "5", "9", "-", "5">>,
    <<"i", "s", "o", "-", "8", "8", "5", "9", "-", "6">>,
    <<"i", "s", "o", "-", "8", "8", "5", "9", "-", "7">>,
    <<"i", "s", "o", "-", "8", "8", "5", "9", "-", "8">>,
    <<"i", "s", "o", "-", "8", "8", "5", "9", "-", "9">>,
    <<"i", "s", "o", "-", "8", "8", "5", "9", "-", "1", "0">>,
    <<"i", "s", "o", "-", "8", "8", "5", "9", "-", "1", "3">>,
    <<"i", "s", "o", "-", "8", "8", "5", "9", "-", "1", "4">>,
    <<"i", "s", "o", "-", "8", "8", "5", "9", "-", "1", "5">>,
    <<"i", "s", "o", "-", "8", "8", "5", "9", "-", "1", "6">>,
    <<"w", "i", "n", "d", "o", "w", "s", "-", "1", "2", "5", "0">>,
    <<"w", "i", "n", "d", "o", "w", "s", "-", "1", "2", "5", "1">>,
    <<"w", "i", "n", "d", "o", "w", "s", "-", "1", "2", "5", "2">>,
    <<"w", "i", "n", "d", "o", "w", "s", "-", "1", "2", "5", "3">>,
    <<"w", "i", "n", "d", "o", "w", "s", "-", "1", "2", "5", "4">>,
    <<"w", "i", "n", "d", "o", "w", "s", "-", "1", "2", "5", "5">>,
    <<"w", "i", "n", "d", "o", "w", "s", "-", "1", "2", "5", "6">>,
    <<"w", "i", "n", "d", "o", "w", "s", "-", "1", "2", "5", "7">>,
    <<"w", "i", "n", "d", "o", "w", "s", "-", "1", "2", "5", "8">>,
    <<"k", "o", "i", "8", "-", "r">>,
    <<"k", "o", "i", "8", "-", "u">>,
    <<"s", "h", "i", "f", "t", "-", "j", "i", "s">>,
    <<"e", "u", "c", "-", "j", "p">>,
    <<"i", "s", "o", "-", "2", "0", "2", "2", "-", "j", "p">>,
    <<"g", "b", "k">>,
    <<"g", "b", "1", "8", "0", "3", "0">>,
    <<"b", "i", "g", "5">>,
    <<"e", "u", "c", "-", "k", "r">> >>

\* Utils.GetSupportedEncodings: the list it returns
GetSupportedEncodings == <<
    <<"u", "t", "f", "-", "8">>,
    <<"u", "t", "f", "8">>,
    <<"u", "t", "f", "-", "1", "6">>,
    <<"u", "t", "f", "1", "6">>,
    <<"u", "t", "f", "-", "1", "6", "l", "e">>,
    <<"u", "t", "f", "1", "6", "l", "e">>,
    <<"u", "t", "f", "-", "1", "6", "b", "e">>,
    <<"u", "t", "f", "1", "6", "b", "e">>,
    <<"i", "s", "o", "-", "8", "8", "5", "9", "-", "1">>,
    <<"l", "a", "t", "i", "n", "1">>,
    <<"i", "s", "o", "-", "8", "8", "5", "9", "-", "2">>,
    <<"l", "a", "t", "i", "n", "2">>,
    <<"i", "s", "o", "-", "8", "8", "5", "9", "-", "3">>,
    <<"l", "a", "t", "i", "n", "3">>,
    <<"i", "s", "o", "-", "8", "8", "5", "9", "-", "4">>,
    <<"l", "a", "t", "i", "n", "4">>,
    <<"i", "s", "o", "-", "8", "8", "5", "9", "-", "5">>,
    <<"i", "s", "o", "-", "8", "8", "5", "9", "-", "6">>,
    <<"i", "s", "o", "-", "8", "8", "5", "9", "-", "7">>,
    <<"i", "s", "o", "-", "8", "8", "5", "9", "-", "8">>,
    <<"i", "s", "o", "-", "8", "8", "5", "9", "-", "9">>,
    <<"l", "a", "t", "i", "n", "5">>,
    <<"i", "s", "o", "-", "8", "8", "5", "9", "-", "1", "0">>,
    <<"l", "a", "t", "i", "n", "6">>,
    <<"i", "s", "o", "-", "8", "8", "5", "9", "-", "1", "3">>,
    <<"l", "a", "t", "i", "n", "7">>,
    <<"i", "s", "o", "-", "8", "8", "5", "9", "-", "1", "4">>,
    <<"l", "a", "t", "i", "n", "8">>,
    <<"i", "s", "o", "-", "8", "8", "5", "9", "-", "1", "5">>,
    <<"l", "a", "t", "i", "n", "9">>,
    <<"i", "s", "o", "-", "8", "8", "5", "9", "-", "1", "6">>,
    <<"l", "a", "t", "i", "n", "1", "0">>,
    <<"w", "i", "n", "d", "o", "w", "s", "-", "1", "2", "5", "0">>,
    <<"w", "i", "n", "d", "o", "w", "s", "-", "1", "2", "5", "1">>,
    <<"w", "i", "n", "d", "o", "w", "s", "-", "1", "2", "5", "2">>,
    <<"w", "i", "n", "d", "o", "w", "s", "-", "1", "2", "5", "3">>,
    <<"w", "i", "n", "d", "o", "w", "s", "-", "1", "2", "5", "4">>,
    <<"w", "i", "n", "d", "o", "w", "s", "-", "1", "2", "5", "5">>,
    <<"w", "i", "n", "d", "o", "w", "s", "-", "1", "2", "5", "6">>,
    <<"w", "i", "n", "d", "o", "w", "s", "-", "1", "2", "5", "7">>,
    <<"w", "i", "n", "d", "o", "w", "s", "-", "1", "2", "5", "8">>,
    <<"k", "o", "i", "8", "-", "r">>,
    <<"k", "o", "i", "8", "-", "u">>,
    <<"s", "h", "i", "f", "t", "-", "j", "i", "s">>,
    <<"s", "h", "i", "f", "t", "_", "j", "i", "s">>,
    <<"s", "j", "i", "s">>,
    <<"e", "u", "c", "-", "j", "p">>,
    <<"e", "u", "c", "j", "p">>,
    <<"i", "s", "o", "-", "2", "0", "2", "2", "-", "j", "p">>,
    <<"i", "s", "o", "2", "0", "2", "2", "j", "p">>,
    <<"g", "b", "k">>,
    <<"g", "b", "1", "8", "0", "3", "0">>,
    <<"b", "i", "g", "5">>,
    <<"e", "u", "c", "-", "k", "r">>,
    <<"e", "u", "c", "k", "r">> >>

\* the bytes a transcoder of golang.org/x/text returns: known only as the
\* result of that codec on that input
Transcoded(enc, dir, s) ==
  [nil |-> FALSE, rep |-> 0, unit |-> <<>>, body |-> <<>>,
   codec |-> enc, dir |-> dir, of |-> s]

IsTranscoded(v) == "codec" \in DOMAIN v

\* encoding.Encoder.Bytes / encoding.Decoder.Bytes of the x/text package: the
\* UTF-8 codec leaves well-formed input as it is; every other result is the
\* library's, a value or an error
TranscoderBytes(enc, dir, s) ==
  IF enc = "unicode.UTF8" /\ Valid(s)
  THEN {[ok |-> TRUE, val |-> StringOf(s)]}
  ELSE {[ok |-> TRUE, val |-> Transcoded(enc, dir, s)],
        [ok |-> FALSE, val |-> NilBytes]}

\* Encode without the shortcut for the empty text
Encode_NoEmptyShortcut(te, text) ==
  IF te.label = LblUTF8 \/ te.label = LblUTF8NoDash
  THEN {[val |-> text, err |-> NoErr, viaCodec |-> FALSE]}
  ELSE {IF r.ok THEN [val |-> r.val, err |-> NoErr, viaCodec |-> TRUE]
        ELSE [val |-> NilBytes, err |-> ErrEncodeFailed, viaCodec |-> TRUE]
        : r \in TranscoderBytes(te.encoding, "encode", text)}

\* TextEncoder.Encode: the outcomes [val, err, viaCodec]
Encode(te, text) ==
  IF StrLen(text) = 0
  THEN {[val |-> EmptyStr, err |-> NoErr, viaCodec |-> FALSE]}
  ELSE IF te.label = LblUTF8 \/ te.label = LblUTF8NoDash
  THEN {[val |-> text, err |-> NoErr, viaCodec |-> FALSE]}
  ELSE {IF r.ok THEN [val |-> r.val, err |-> NoErr, viaCodec |-> TRUE]
        ELSE [val |-> NilBytes, err |-> ErrEncodeFailed, viaCodec |-> TRUE]
        : r \in TranscoderBytes(te.encoding, "encode", text)}

\* TextEncoder.EncodeString
EncodeString(te, text) ==
  {IF o.err # NoErr THEN [val |-> EmptyStr, err |-> o.err, viaCodec |-> o.viaCodec]
   ELSE [val |-> StringOf(o.val), err |-> NoErr, viaCodec |-> o.viaCodec]
   : o \in Encode(te, text)}

\* Decode returning the undecoded bytes next to the error
Decode_PartialOnError(td, data) ==
  IF StrLen(data) = 0
  THEN {[val |-> EmptyStr, err |-> NoErr, viaCodec |-> FALSE]}
  ELSE IF td.label = LblUTF8 \/ td.label = LblUTF8NoDash
  THEN {[val |-> StringOf(data), err |-> NoErr, viaCodec |-> FALSE]}
  ELSE {IF r.ok THEN [val |-> StringOf(r.val), err |-> NoErr, viaCodec |-> TRUE]
        ELSE [val |-> StringOf(data), err |-> ErrDecodeFailed, viaCodec |-> TRUE]
        : r \in TranscoderBytes(td.encoding, "decode", data)}

\* TextDecoder.Decode
Decode(td, data) ==
  IF StrLen(data) = 0
  THEN {[val |-> EmptyStr, err |-> NoErr, viaCodec |-> FALSE]}
  ELSE IF td.label = LblUTF8 \/ td.label = LblUTF8NoDash
  THEN {[val |-> StringOf(data), err |-> NoErr, viaCodec |-> FALSE]}
  ELSE {IF r.ok THEN [val |-> StringOf(r.val), err |-> NoErr, viaCodec |-> TRUE]
        ELSE [val |-> EmptyStr, err |-> ErrDecodeFailed, viaCodec |-> TRUE]
        : r \in TranscoderBytes(td.encoding, "decode", data)}

---------------------------------------------------------------------------
(* The script driving the facade: it holds one argument, calls an operation *)
(* on it, and may pass a successful result on to the next operation.        *)

\* bytes the explicit parts of the inputs are made of: 'A', a continuation
\* byte below and one above 0x9F, an overlong lead (0xC0), the leads of a
\* 2-, 3- and 4-byte sequence with restricted second byte (0xC3, 0xED, 0xF0,
\* 0xF4) and a byte that is never valid (0xFF)
ByteAlphabet == {65, 128, 160, 192, 195, 237, 240, 244, 255}

SeqsUpTo(S, n) == UNION {[1..k -> S] : k \in 0..n}

\* the run of a large input: "aaa" repeated
FillUnit == <<97, 97, 97>>

\* run lengths that put a text at the size limit (MaxInputSize \div 3 copies and
\* a tail) and its Base64 form at the size limit (MaxInputSize \div 4 copies)
FillReps == {MaxInputSize \div 4, MaxInputSize \div 3}

ShortInputs == {Str(0, <<>>, b) : b \in SeqsUpTo(ByteAlphabet, MaxBody)}

\* the sequences of TestInvalidUTF8Sequences, and "Hello" with the globe emoji
TestSequences == {
  Str(0, <<>>, <<255, 254>>),
  Str(0, <<>>, <<192, 128>>),
  Str(0, <<>>, <<240, 159>>),
  Str(0, <<>>, <<237, 160, 128>>),
  Str(0, <<>>, <<244, 144, 128, 128>>),
  Str(0, <<>>, <<128>>),
  Str(0, <<>>, <<192, 175>>),
  Str(0, <<>>, <<224, 128, 175>>),
  Str(0, <<>>, <<240, 128, 128, 175>>),
  Str(0, <<>>, <<248, 128, 128, 128, 175>>),
  Str(0, <<>>, <<72, 101, 108, 108, 111, 32, 240, 159, 140, 141>>) }

LargeInputs ==
  {Str(r, FillUnit, b) : r \in FillReps, b \in SeqsUpTo(ByteAlphabet, MaxTail)}

\* characters of Base64 texts: '/' and 'Q' of the alphabet ("QQ==" is "A",
\* "//==" the byte 0xFF), the padding '=', a line feed, and '-' of the URL
\* alphabet
Base64Alphabet == {47, 81, 61, 10, 45}

\* Base64 texts of up to one quantum more than a short input's characters
Base64Inputs == {Str(0, <<>>, b) : b \in SeqsUpTo(Base64Alphabet, MaxBody + 1)}

NoCall == [op |-> "none", in |-> EmptyStr, val |-> EmptyStr, err |-> NoErr,
           errArg |-> <<>>, viaCodec |-> FALSE]

\* operations whose successful result is a []byte, and a Base64 text
BytesOps == {"EncodeUTF8", "Encode"}
Base64Ops == {"EncodeUTF8ToBase64"}

\* a result the script can pass on: a successful one, made of known bytes
Usable(c) == c.err = NoErr /\ ~IsTranscoded(c.val)

\* what the script can pass as a []byte: its argument, or the bytes the call
\* before returned
BytesArgs ==
  {[from |-> NoCall, val |-> input]}
    \cup (IF prev.op = "none" /\ call.op \in BytesOps /\ Usable(call)
          THEN {[from |-> call, val |-> call.val]} ELSE {})

\* what the script can pass as a string: its argument (a string is never nil)
StringArgs ==
  IF input.nil THEN {} ELSE {[from |-> NoCall, val |-> input]}

\* what the script can pass as a Base64 text: its argument, or the text the
\* call before returned
Base64Args ==
  StringArgs
    \cup (IF prev.op = "none" /\ call.op \in Base64Ops /\ Usable(call)
          THEN {[from |-> call, val |-> call.val]} ELSE {})

\* the UTF-8 predicates
Predicates == {"IsValidUTF8", "IsValidUTF8Bytes"}

\* the call a new call of op on argument a is compared with: for a predicate
\* the call before, if it was the same predicate on the same argument, else
\* the call whose result the argument is
Earlier(op, a) ==
  IF a.from.op = "none" /\ op \in Predicates /\ call.op = op /\ call.in = a.val
  THEN call ELSE a.from

Invoke(op, arg, res) ==
  /\ call' = [op |-> op, in |-> arg.val, val |-> res.val, err |-> res.err,
              errArg |-> <<>>,
              viaCodec |-> IF "viaCodec" \in DOMAIN res THEN res.viaCodec ELSE FALSE]
  /\ prev' = Earlier(op, arg)
  /\ UNCHANGED <<input, labelArg, encoder, decoder>>
  /\ UNCHANGED poolVars

CallEncodeUTF8 ==
  \E a \in StringArgs : Invoke("EncodeUTF8", a, EncodeUTF8(a.val))

CallEncodeUTF8ToBase64 ==
  \E a \in StringArgs : Invoke("EncodeUTF8ToBase64", a, EncodeUTF8ToBase64(a.val))

CallDecodeUTF8 ==
  \E a \in BytesArgs : Invoke("DecodeUTF8", a, DecodeUTF8(a.val))

CallDecodeUTF8FromBase64 ==
  \E a \in Base64Args : Invoke("DecodeUTF8FromBase64", a, DecodeUTF8FromBase64(a.val))

CallIsValidUTF8 ==
  \E a \in StringArgs : Invoke("IsValidUTF8", a, IsValidUTF8(a.val))

CallIsValidUTF8Bytes ==
  \E a \in BytesArgs : Invoke("IsValidUTF8Bytes", a, IsValidUTF8Bytes(a.val))

CallCountUTF8Bytes ==
  \E a \in StringArgs : Invoke("CountUTF8Bytes", a, CountUTF8Bytes(a.val))

CallCountUTF8Runes ==
  \E a \in StringArgs : Invoke("CountUTF8Runes", a, CountUTF8Runes(a.val))

Init ==
  /\ \/ input \in ShortInputs
     \/ input \in TestSequences
     \/ input \in LargeInputs
     \/ input \in Base64Inputs
     \/ input = NilBytes
  /\ labelArg = NoArg
  /\ call = NoCall
  /\ prev = NoCall
  /\ encoder = NoHandle
  /\ decoder = NoHandle
  /\ goroutines = <<>>
  /\ buffers = <<>>
  /\ bufferPool = {}

Next ==
  \/ CallEncodeUTF8
  \/ CallEncodeUTF8ToBase64
  \/ CallDecodeUTF8
  \/ CallDecodeUTF8FromBase64
  \/ CallIsValidUTF8
  \/ CallIsValidUTF8Bytes
  \/ CallCountUTF8Bytes
  \/ CallCountUTF8Runes

Spec == Init /\ [][Next]_vars

---------------------------------------------------------------------------
(* The script driving the registry and the handles: it holds one label     *)
(* argument and one text, resolves the label, constructs handles from it   *)
(* and encodes / decodes with the handles it holds.                        *)

\* every label of the switch of getEncoding
TableLabels == UNION {EncodingTable[r].labels : r \in 1..Len(EncodingTable)}

\* labels the documentation names and the switch lacks
DocOnlyLabels == {
  <<"i", "s", "o", "-", "8", "8", "5", "9", "-", "1", "1">>,
  <<"i", "s", "o", "-", "8", "8", "5", "9", "-", "1", "2">>,
  <<"i", "s", "o", "-", "2", "0", "2", "2", "-", "k", "r">>,
  <<"i", "s", "o", "2", "0", "2", "2", "k", "r">> }

\* labels that name no codec
ForeignLabels == {
  <<>>,
  <<"i", "n", "v", "a", "l", "i", "d", "-", "e", "n", "c", "o", "d", "i", "n", "g">>,
  <<"u", "t", "f">>,
  <<"u", "t", "f", "-">>,
  <<"u", "t", "f", "-", "8", "8">>,
  <<"u", "t", "f", "-", "-", "8">>,
  <<"u", "t", "f", "_", "8">>,
  <<"u", "t", "f", " ", "8">>,
  <<"u", "t", "f", "-", "3", "2">>,
  <<"l", "a", "t", "i", "n">>,
  <<"l", "a", "t", "i", "n", "0">>,
  <<"l", "a", "t", "i", "n", "1", "1">>,
  <<"i", "s", "o", "-", "8", "8", "5", "9", "-", "0">>,
  <<"i", "s", "o", "-", "8", "8", "5", "9", "-", "1", "7">>,
  <<"i", "s", "o", "-", "8", "8", "5", "9">>,
  <<"i", "s", "o", "8", "8", "5", "9", "-", "1">>,
  <<"w", "i", "n", "d", "o", "w", "s", "-", "1", "2", "4", "9">>,
  <<"w", "i", "n", "d", "o", "w", "s", "-", "1", "2", "5", "9">>,
  <<"w", "i", "n", "d", "o", "w", "s", "1", "2", "5", "2">>,
  <<"k", "o", "i", "8">>,
  <<"k", "o", "i", "8", "r">>,
  <<"s", "h", "i", "f", "t", "j", "i", "s">>,
  <<"e", "u", "c">>,
  <<"g", "b", "2", "3", "1", "2">>,
  <<"b", "i", "g", "-", "5">>,
  <<"a", "s", "c", "i", "i">>,
  <<"u", "n", "d", "e", "f", "i", "n", "e", "d">>,
  <<"d", "e", "f", "i", "n", "i", "t", "e", "l", "y", "-", "n", "o", "t", "-", "r", "e", "a", "l">> }

UpperRune(c) ==
  IF \E i \in 1..26 : LowerLetters[i] = c
  THEN UpperLetters[CHOOSE i \in 1..26 : LowerLetters[i] = c]
  ELSE c

\* spellings of a label: as it is, in capitals, with a capital first letter
Spellings(l) ==
  {l, [i \in 1..Len(l) |-> UpperRune(l[i])],
      [i \in 1..Len(l) |-> IF i = 1 THEN UpperRune(l[i]) ELSE l[i]]}

Blanks == SeqsUpTo({" "}, MaxPad)

CoreLabels == TableLabels \cup DocOnlyLabels \cup ForeignLabels

\* every label in its spellings, every label between blanks, and the spellings
\* of "utf-8" between blanks
DecoratedLabels ==
  UNION {Spellings(l) : l \in CoreLabels}
    \cup {a \o l \o b : a \in Blanks, b \in Blanks, l \in CoreLabels}
    \cup {a \o s \o b : a \in Blanks, b \in Blanks, s \in Spellings(LblUTF8)}

\* near misses of the labels of the switch: proper prefixes, and one more
\* character before or after
NearLabels ==
  UNION {{SubSeq(l, 1, k) : k \in 0..(Len(l) - 1)}
           \cup {l \o <<c>> : c \in {"8", "e", "-"}}
           \cup {<<c>> \o l : c \in {"x", "-"}} : l \in TableLabels}

\* labels with the other white space and with U+212A for the letter K
OddLabels == {
  <<"\t", "u", "t", "f", "-", "8", "\n">>,
  <<"NBSP", "l", "a", "t", "i", "n", "1", "NBSP">>,
  <<"u", "t", "f", "\t", "8">>,
  <<"\t">>,
  <<"KELVIN", "O", "I", "8", "-", "R">> }

Labels == DecoratedLabels \cup NearLabels \cup OddLabels

LabelArgs == {NoArg} \cup {[given |-> TRUE, text |-> l] : l \in Labels}

\* labels the script constructs handles from to encode and decode many texts
HandleLabels == {
  <<>>, LblUTF8, LblUTF8NoDash,
  <<"U", "T", "F", "-", "8">>,
  <<" ", "u", "t", "f", "-", "8", " ">>,
  <<"u", "t", "f", "-", "1", "6">>,
  <<"l", "a", "t", "i", "n", "1">> }

HandleArgs == {NoArg} \cup {[given |-> TRUE, text |-> l] : l \in HandleLabels}

CodecAlphabet == {65, 160, 195, 255}

CodecInputs ==
  {Str(0, <<>>, b) : b \in SeqsUpTo(CodecAlphabet, MaxText)} \cup {NilBytes}

LabelCall(op, l, r) ==
  [op |-> op, in |-> l, val |-> r.val, err |-> r.err, errArg |-> r.errArg,
   viaCodec |-> FALSE]

TextCall(op, a, o) ==
  [op |-> op, in |-> a.val, val |-> o.val, err |-> o.err, errArg |-> <<>>,
   viaCodec |-> o.viaCodec]

CallGetEncoding ==
  /\ labelArg.given
  /\ call' = LabelCall("getEncoding", labelArg.text, getEncoding(labelArg.text))
  /\ prev' = IF call.op = "getEncoding" THEN call ELSE NoCall
  /\ UNCHANGED <<input, labelArg, encoder, decoder>>
  /\ UNCHANGED poolVars

CallIsValidEncoding ==
  /\ labelArg.given
  /\ call' = LabelCall("IsValidEncoding", labelArg.text,
                       [val |-> IsValidEncoding(labelArg.text), err |-> NoErr,
                        errArg |-> <<>>])
  /\ prev' = IF call.op = "IsValidEncoding" THEN call ELSE NoCall
  /\ UNCHANGED <<input, labelArg, encoder, decoder>>
  /\ UNCHANGED poolVars

\* new TextEncoder(label): the handle is the script's only if nothing is thrown
CallNewTextEncoder ==
  LET r == NewTextEncoder(labelArg) IN
  /\ call' = LabelCall("NewTextEncoder", ArgLabel(labelArg), r)
  /\ encoder' = IF r.val.made THEN r.val ELSE encoder
  /\ prev' = NoCall
  /\ UNCHANGED <<input, labelArg, decoder>>
  /\ UNCHANGED poolVars

CallNewTextDecoder ==
  LET r == NewTextDecoder(labelArg) IN
  /\ call' = LabelCall("NewTextDecoder", ArgLabel(labelArg), r)
  /\ decoder' = IF r.val.made THEN r.val ELSE decoder
  /\ prev' = NoCall
  /\ UNCHANGED <<input, labelArg, encoder>>
  /\ UNCHANGED poolVars

CallEncode ==
  /\ encoder.made
  /\ \E a \in StringArgs : \E o \in Encode(encoder, a.val) :
       /\ call' = TextCall("Encode", a, o)
       /\ prev' = a.from
  /\ UNCHANGED <<input, labelArg, encoder, decoder>>
  /\ UNCHANGED poolVars

CallEncodeString ==
  /\ encoder.made
  /\ \E a \in StringArgs : \E o \in EncodeString(encoder, a.val) :
       /\ call' = TextCall("EncodeString", a, o)
       /\ prev' = a.from
  /\ UNCHANGED <<input, labelArg, encoder, decoder>>
  /\ UNCHANGED poolVars

CallDecode ==
  /\ decoder.made
  /\ \E a \in BytesArgs : \E o \in Decode(decoder, a.val) :
       /\ call' = TextCall("Decode", a, o)
       /\ prev' = a.from
  /\ UNCHANGED <<input, labelArg, encoder, decoder>>
  /\ UNCHANGED poolVars

\* TextEncoder.GetEncoding
CallEncoderGetEncoding ==
  /\ encoder.made
  /\ call' = LabelCall("TextEncoder.GetEncoding", <<>>,
                       [val |-> encoder.label, err |-> NoErr, errArg |-> <<>>])
  /\ prev' = NoCall
  /\ UNCHANGED <<input, labelArg, encoder, decoder>>
  /\ UNCHANGED poolVars

\* Utils.GetSupportedEncodings
CallGetSupportedEncodings ==
  /\ call' = LabelCall("GetSupportedEncodings", <<>>,
                       [val |-> GetSupportedEncodings, err |-> NoErr, errArg |-> <<>>])
  /\ prev' = NoCall
  /\ UNCHANGED <<input, labelArg, encoder, decoder>>
  /\ UNCHANGED poolVars

\* TextDecoder.GetEncoding
CallDecoderGetEncoding ==
  /\ decoder.made
  /\ call' = LabelCall("TextDecoder.GetEncoding", <<>>,
                       [val |-> decoder.label, err |-> NoErr, errArg |-> <<>>])
  /\ prev' = NoCall
  /\ UNCHANGED <<input, labelArg, encoder, decoder>>
  /\ UNCHANGED poolVars

InitCodec ==
  /\ \/ labelArg \in LabelArgs /\ input = Str(0, <<>>, <<65, 195, 160>>)
     \/ labelArg \in HandleArgs /\ input \in CodecInputs
  /\ call = NoCall
  /\ prev = NoCall
  /\ encoder = NoHandle
  /\ decoder = NoHandle
  /\ goroutines = <<>>
  /\ buffers = <<>>
  /\ bufferPool = {}

NextCodec ==
  \/ CallGetEncoding
  \/ CallIsValidEncoding
  \/ CallNewTextEncoder
  \/ CallNewTextDecoder
  \/ CallEncode
  \/ CallEncodeString
  \/ CallDecode
  \/ CallEncoderGetEncoding
  \/ CallDecoderGetEncoding
  \/ CallGetSupportedEncodings

SpecCodec == InitCodec /\ [][NextCodec]_vars

---------------------------------------------------------------------------
(* The script using the whole module: a few labels and texts, every        *)
(* operation of the registry, the handles, Utils and the UTF-8 facade.     *)

\* Utils.UTF8ByteLength
CallUTF8ByteLength ==
  \E a \in StringArgs :
    /\ call' = [op |-> "UTF8ByteLength", in |-> a.val, val |-> UTF8ByteLength(a.val),
                err |-> NoErr, errArg |-> <<>>, viaCodec |-> FALSE]
    /\ prev' = a.from
    /\ UNCHANGED <<input, labelArg, encoder, decoder>>
    /\ UNCHANGED poolVars

\* one label of every case of the switch, the default, other spellings of two
\* labels and the aliases of one codec, and a label of no codec
ModuleLabels ==
  {CHOOSE l \in EncodingTable[r].labels : TRUE : r \in 1..Len(EncodingTable)}
    \cup {<<>>, LblUTF8, <<"U", "T", "F", "-", "8">>,
          <<"l", "a", "t", "i", "n", "1">>, <<"L", "A", "T", "I", "N", "1">>,
          <<"i", "s", "o", "-", "8", "8", "5", "9", "-", "1">>,
          <<"i", "n", "v", "a", "l", "i", "d", "-",
            "e", "n", "c", "o", "d", "i", "n", "g">>}

ModuleArgs == {NoArg} \cup {[given |-> TRUE, text |-> l] : l \in ModuleLabels}

\* the texts of the README and of the byte-length tests: "Hello", the globe
\* emoji (U+1F30D), "áéíóú" and "Hello, 世界!"
ExampleTexts == {
  Str(0, <<>>, <<72, 101, 108, 108, 111>>),
  Str(0, <<>>, <<240, 159, 140, 141>>),
  Str(0, <<>>, <<195, 161, 195, 169, 195, 173, 195, 179, 195, 186>>),
  Str(0, <<>>, <<72, 101, 108, 108, 111, 44, 32, 228, 184, 150, 231, 149, 140, 33>>) }

\* the other texts of TestUtils_UTF8ByteLength: "Hello World" and "Hello", the
\* globe emoji and "世界" with blanks between
TestTexts == {
  Str(0, <<>>, <<72, 101, 108, 108, 111, 32, 87, 111, 114, 108, 100>>),
  Str(0, <<>>, <<72, 101, 108, 108, 111, 32, 240, 159, 140, 141, 32,
                 228, 184, 150, 231, 149, 140>>) }

\* texts of MaxInputSize bytes and of one byte more
LimitTexts == {Str(MaxInputSize \div 3, FillUnit, <<65>>),
               Str(MaxInputSize \div 3, FillUnit, <<65, 65>>)}

\* "", nil, a byte that is no UTF-8, the examples and the texts at the limit
ModuleInputs ==
  {EmptyStr, NilBytes, Str(0, <<>>, <<255>>)} \cup ExampleTexts \cup TestTexts
    \cup LimitTexts

InitModule ==
  /\ labelArg \in ModuleArgs
  /\ input \in ModuleInputs
  /\ call = NoCall
  /\ prev = NoCall
  /\ encoder = NoHandle
  /\ decoder = NoHandle
  /\ goroutines = <<>>
  /\ buffers = <<>>
  /\ bufferPool = {}

NextModule ==
  \/ CallGetEncoding
  \/ CallIsValidEncoding
  \/ CallNewTextEncoder
  \/ CallNewTextDecoder
  \/ CallEncode
  \/ CallEncodeString
  \/ CallDecode
  \/ CallEncoderGetEncoding
  \/ CallDecoderGetEncoding
  \/ CallGetSupportedEncodings
  \/ CallUTF8ByteLength
  \/ CallEncodeUTF8
  \/ CallEncodeUTF8ToBase64
  \/ CallDecodeUTF8
  \/ CallDecodeUTF8FromBase64
  \/ CallIsValidUTF8
  \/ CallIsValidUTF8Bytes
  \/ CallCountUTF8Bytes
  \/ CallCountUTF8Runes

SpecModule == InitModule /\ [][NextModule]_vars

---------------------------------------------------------------------------
(* The byte-length implementations of the benchmarks, run by the            *)
(* consistency test next to Utils.UTF8ByteLength.                           *)

RuneError == 65533

\* the bytes of unit^rep \o body
Bytes(s) == Repeat(s.unit, s.rep) \o s.body

\* utf8.DecodeRuneInString(str[i:]): the rune and its width; RuneError with
\* width 1 for a byte that opens no well-formed sequence
DecodeRuneInString(p, i) ==
  IF i > Len(p) THEN [r |-> RuneError, size |-> 0]
  ELSE IF p[i] < RuneSelf THEN [r |-> p[i], size |-> 1]
  ELSE LET x == First(p[i]) IN
       IF x.size = 0 THEN [r |-> RuneError, size |-> 1]
       ELSE IF i - 1 + x.size > Len(p) THEN [r |-> RuneError, size |-> 1]
       ELSE IF p[i + 1] < x.lo \/ x.hi < p[i + 1] THEN [r |-> RuneError, size |-> 1]
       ELSE IF x.size = 2
       THEN [r |-> (p[i] - 192) * 64 + (p[i + 1] - 128), size |-> 2]
       ELSE IF p[i + 2] < locb \/ hicb < p[i + 2] THEN [r |-> RuneError, size |-> 1]
       ELSE IF x.size = 3
       THEN [r |-> (p[i] - 224) * 4096 + (p[i + 1] - 128) * 64 + (p[i + 2] - 128),
             size |-> 3]
       ELSE IF p[i + 3] < locb \/ hicb < p[i + 3] THEN [r |-> RuneError, size |-> 1]
       ELSE [r |-> (p[i] - 240) * 262144 + (p[i + 1] - 128) * 4096
                     + (p[i + 2] - 128) * 64 + (p[i + 3] - 128),
             size |-> 4]

\* the bytes added for the rune r
RuneBytes(r) ==
  IF r <= 127 THEN 1 ELSE IF r <= 2047 THEN 2 ELSE IF r <= 65535 THEN 3 ELSE 4

\* the loop of utf8ByteLengthJS from index i
RECURSIVE JSFrom(_, _)
JSFrom(p, i) ==
  IF i > Len(p) THEN 0
  ELSE LET d == DecodeRuneInString(p, i) IN
       IF d.r = RuneError THEN 1 + JSFrom(p, i + 1)
       ELSE RuneBytes(d.r) + JSFrom(p, i + d.size)

utf8ByteLengthJS(str) == JSFrom(Bytes(str), 1)

\* the range loop of utf8ByteLengthManual from index i: range yields U+FFFD
\* and steps one byte where the string is no UTF-8
RECURSIVE ManualFrom(_, _)
ManualFrom(p, i) ==
  IF i > Len(p) THEN 0
  ELSE LET d == DecodeRuneInString(p, i) IN
       RuneBytes(d.r) + ManualFrom(p, i + d.size)

utf8ByteLengthManual(str) == ManualFrom(Bytes(str), 1)

LengthCall(op, a, n) ==
  [op |-> op, in |-> a, val |-> n, err |-> NoErr, errArg |-> <<>>,
   viaCodec |-> FALSE]

CallUTF8ByteLengthJS ==
  /\ ~input.nil
  /\ call' = LengthCall("utf8ByteLengthJS", input, utf8ByteLengthJS(input))
  /\ prev' = NoCall
  /\ UNCHANGED <<input, labelArg, encoder, decoder>>
  /\ UNCHANGED poolVars

CallUTF8ByteLengthManual ==
  /\ ~input.nil
  /\ call' = LengthCall("utf8ByteLengthManual", input, utf8ByteLengthManual(input))
  /\ prev' = NoCall
  /\ UNCHANGED <<input, labelArg, encoder, decoder>>
  /\ UNCHANGED poolVars

\* the strings of TestUTF8ByteLengthConsistency not among the examples:
\* "áéíóú ñ ç ß € ¥ £"
ConsistencyTexts == {
  EmptyStr,
  Str(0, <<>>, <<195, 161, 195, 169, 195, 173, 195, 179, 195, 186, 32, 195, 177,
                 32, 195, 167, 32, 195, 159, 32, 226, 130, 172, 32, 194, 165,
                 32, 194, 163>>),
  Str(0, <<>>, <<239, 191, 189>>) }

InitLength ==
  /\ \/ input \in ShortInputs
     \/ input \in TestSequences
     \/ input \in ExampleTexts
     \/ input \in TestTexts
     \/ input \in ConsistencyTexts
  /\ labelArg = NoArg
  /\ call = NoCall
  /\ prev = NoCall
  /\ encoder = NoHandle
  /\ decoder = NoHandle
  /\ goroutines = <<>>
  /\ buffers = <<>>
  /\ bufferPool = {}

NextLength ==
  \/ CallUTF8ByteLength
  \/ CallUTF8ByteLengthJS
  \/ CallUTF8ByteLengthManual

SpecLength == InitLength /\ [][NextLength]_vars

---------------------------------------------------------------------------
(* The buffer pool, used by goroutines the way TestBufferPool uses it:      *)
(* getBuffer, WriteString, putBuffer.                                       *)

\* goroutines using the pool at the same time
NumGoroutines == 2
\* buffers bufferPool.New may allocate in all
MaxBuffers == 2
\* bytes a holder writes to its buffer
MaxWrite == 1

Goroutines == 1..NumGoroutines

NoBuffer == 0

\* a goroutine that holds no buffer
Idle == [pc |-> "idle", buf |-> NoBuffer, seen |-> 0, reused |-> FALSE]

\* a goroutine that getBuffer handed buffer b to; seen is Len() of the buffer
\* as it was handed out
Holding(b, n, r) == [pc |-> "holding", buf |-> b, seen |-> n, reused |-> r]

\* new(bytes.Buffer); written records whether WriteString was ever called on it
NewBuffer == [data |-> <<>>, written |-> FALSE]

\* a Reset that leaves the content
Reset_Keep(buf) == buf

\* bytes.Buffer.Reset
Reset(buf) == [buf EXCEPT !.data = <<>>]

\* bytes.Buffer.WriteString
WriteString(buf, s) == [data |-> buf.data \o s, written |-> TRUE]

\* a Get that leaves the item in the pool
Get_Leave(pool, b) == pool

\* sync.Pool.Get returning the idle item b: it is removed from the pool
Get(pool, b) == pool \ {b}

\* sync.Pool.Put
Put(pool, b) == pool \cup {b}

scriptVars == <<input, labelArg, call, prev, encoder, decoder>>

\* getBuffer: bufferPool.Get() returns an idle buffer of the pool, or the pool
\* is empty or passed over and New allocates one
CallGetBuffer ==
  \E g \in Goroutines :
    /\ goroutines[g].pc = "idle"
    /\ \/ \E b \in bufferPool :
            /\ bufferPool' = Get(bufferPool, b)
            /\ buffers' = buffers
            /\ goroutines' =
                 [goroutines EXCEPT ![g] = Holding(b, Len(buffers[b].data), TRUE)]
       \/ /\ Len(buffers) < MaxBuffers
          /\ buffers' = Append(buffers, NewBuffer)
          /\ bufferPool' = bufferPool
          /\ goroutines' =
               [goroutines EXCEPT ![g] = Holding(Len(buffers) + 1, Len(NewBuffer.data), FALSE)]
    /\ UNCHANGED scriptVars

\* buf.WriteString by the holder; the byte written names the writer
CallWriteString ==
  \E g \in Goroutines :
    /\ goroutines[g].pc = "holding"
    /\ Len(buffers[goroutines[g].buf].data) < MaxWrite
    /\ buffers' = [buffers EXCEPT ![goroutines[g].buf] = WriteString(@, <<g>>)]
    /\ UNCHANGED <<goroutines, bufferPool>>
    /\ UNCHANGED scriptVars

\* putBuffer, first statement: buf.Reset()
PutBufferReset ==
  \E g \in Goroutines :
    /\ goroutines[g].pc = "holding"
    /\ buffers' = [buffers EXCEPT ![goroutines[g].buf] = Reset(@)]
    /\ goroutines' = [goroutines EXCEPT ![g].pc = "reset"]
    /\ UNCHANGED bufferPool
    /\ UNCHANGED scriptVars

\* putBuffer, second statement: bufferPool.Put(buf); the caller lets go of buf
PutBufferPut ==
  \E g \in Goroutines :
    /\ goroutines[g].pc = "reset"
    /\ bufferPool' = Put(bufferPool, goroutines[g].buf)
    /\ goroutines' = [goroutines EXCEPT ![g] = Idle]
    /\ UNCHANGED buffers
    /\ UNCHANGED scriptVars

\* sync.Pool lets go of idle items at a garbage collection
PoolCleanup ==
  \E b \in bufferPool :
    /\ bufferPool' = bufferPool \ {b}
    /\ UNCHANGED <<goroutines, buffers>>
    /\ UNCHANGED scriptVars

InitPool ==
  /\ goroutines = [g \in Goroutines |-> Idle]
  /\ buffers = <<>>
  /\ bufferPool = {}
  /\ input = EmptyStr
  /\ labelArg = NoArg
  /\ call = NoCall
  /\ prev = NoCall
  /\ encoder = NoHandle
  /\ decoder = NoHandle

NextPool ==
  \/ CallGetBuffer
  \/ CallWriteString
  \/ PutBufferReset
  \/ PutBufferPut
  \/ PoolCleanup

SpecPool == InitPool /\ [][NextPool]_vars

---------------------------------------------------------------------------
(* Goroutines calling the UTF-8 facade and one shared TextEncoder and       *)
(* TextDecoder at the same time, as TestConcurrentOperations does.  A call  *)
(* of the facade touches nothing but its argument and is one step; Encode   *)
(* and Decode read the label of the handle first and its codec later.       *)

\* the labels the shared handles are made with: none, "utf-8", "UTF-8" and
\* "latin1"
ConcArgs ==
  {NoArg} \cup {[given |-> TRUE, text |-> l] :
                  l \in {LblUTF8, <<"U", "T", "F", "-", "8">>,
                         <<"l", "a", "t", "i", "n", "1">>}}

\* "", "A" and a byte that is no UTF-8
ConcInputs == {EmptyStr, Str(0, <<>>, <<65>>), Str(0, <<>>, <<255>>)}

NoRes == [val |-> EmptyStr, err |-> NoErr, viaCodec |-> FALSE]

\* a goroutine between calls
Waiting == [pc |-> "idle", op |-> "none", arg |-> EmptyStr, label |-> <<>>, res |-> NoRes]

\* a goroutine whose call of op on a has returned r
Returned(op, a, r) ==
  [pc |-> "returned", op |-> op, arg |-> a, label |-> <<>>,
   res |-> [val |-> r.val, err |-> r.err,
            viaCodec |-> IF "viaCodec" \in DOMAIN r THEN r.viaCodec ELSE FALSE]]

\* a goroutine inside Encode or Decode that has compared the label l of the
\* handle with "utf-8" and "utf8"
Transcoding(op, a, l) ==
  [pc |-> "transcoding", op |-> op, arg |-> a, label |-> l, res |-> NoRes]

Ready(g) == goroutines[g].pc \in {"idle", "returned"}

\* what goroutine g can pass to its next call: one of the inputs, or the
\* value its call before returned if that was a successful call of an
\* operation of ops
GoArgs(g, ops) ==
  ConcInputs
    \cup (IF goroutines[g].pc = "returned" /\ goroutines[g].op \in ops
             /\ goroutines[g].res.err = NoErr
          THEN {goroutines[g].res.val} ELSE {})

\* a handle that keeps the lower-cased, trimmed label once it was used
HandleAfterCall_CacheLabel(h) == [h EXCEPT !.label = ToLower(TrimSpace(h.label))]

\* the receiver after Encode, Decode or GetEncoding: no field is assigned
HandleAfterCall(h) == h

\* a call of the facade by goroutine g: no shared state is read or written
GoFacade(g, op, a, r) ==
  /\ Ready(g)
  /\ goroutines' = [goroutines EXCEPT ![g] = Returned(op, a, r)]
  /\ UNCHANGED <<encoder, decoder, input, labelArg, call, prev, buffers, bufferPool>>

GoEncodeUTF8 ==
  \E g \in Goroutines : \E a \in GoArgs(g, {}) :
    GoFacade(g, "EncodeUTF8", a, EncodeUTF8(a))

GoDecodeUTF8 ==
  \E g \in Goroutines : \E a \in GoArgs(g, {"EncodeUTF8"}) :
    GoFacade(g, "DecodeUTF8", a, DecodeUTF8(a))

GoEncodeUTF8ToBase64 ==
  \E g \in Goroutines : \E a \in GoArgs(g, {}) :
    GoFacade(g, "EncodeUTF8ToBase64", a, EncodeUTF8ToBase64(a))

GoDecodeUTF8FromBase64 ==
  \E g \in Goroutines : \E a \in GoArgs(g, {"EncodeUTF8ToBase64"}) :
    GoFacade(g, "DecodeUTF8FromBase64", a, DecodeUTF8FromBase64(a))

\* Encode up to the comparison of te.label: "" and the UTF-8 labels return
GoEncodeBegin ==
  \E g \in Goroutines : \E a \in GoArgs(g, {}) :
    /\ Ready(g)
    /\ encoder.made
    /\ IF StrLen(a) = 0 \/ encoder.label = LblUTF8 \/ encoder.label = LblUTF8NoDash
       THEN /\ \E o \in Encode(encoder, a) :
                 goroutines' = [goroutines EXCEPT ![g] = Returned("Encode", a, o)]
            /\ encoder' = HandleAfterCall(encoder)
       ELSE /\ goroutines' =
                 [goroutines EXCEPT ![g] = Transcoding("Encode", a, encoder.label)]
            /\ encoder' = encoder
    /\ UNCHANGED <<decoder, input, labelArg, call, prev, buffers, bufferPool>>

\* Encode from te.encoding.NewEncoder() to the return
GoEncodeFinish ==
  \E g \in Goroutines :
    /\ goroutines[g].pc = "transcoding" /\ goroutines[g].op = "Encode"
    /\ \E o \in Encode(Handle(encoder.encoding, goroutines[g].label), goroutines[g].arg) :
         goroutines' = [goroutines EXCEPT ![g] = Returned("Encode", goroutines[g].arg, o)]
    /\ encoder' = HandleAfterCall(encoder)
    /\ UNCHANGED <<decoder, input, labelArg, call, prev, buffers, bufferPool>>

\* Decode up to the comparison of td.label
GoDecodeBegin ==
  \E g \in Goroutines : \E a \in GoArgs(g, {"EncodeUTF8"}) :
    /\ Ready(g)
    /\ decoder.made
    /\ IF StrLen(a) = 0 \/ decoder.label = LblUTF8 \/ decoder.label = LblUTF8NoDash
       THEN /\ \E o \in Decode(decoder, a) :
                 goroutines' = [goroutines EXCEPT ![g] = Returned("Decode", a, o)]
            /\ decoder' = HandleAfterCall(decoder)
       ELSE /\ goroutines' =
                 [goroutines EXCEPT ![g] = Transcoding("Decode", a, decoder.label)]
            /\ decoder' = decoder
    /\ UNCHANGED <<encoder, input, labelArg, call, prev, buffers, bufferPool>>

\* Decode from td.encoding.NewDecoder() to the return
GoDecodeFinish ==
  \E g \in Goroutines :
    /\ goroutines[g].pc = "transcoding" /\ goroutines[g].op = "Decode"
    /\ \E o \in Decode(Handle(decoder.encoding, goroutines[g].label), goroutines[g].arg) :
         goroutines' = [goroutines EXCEPT ![g] = Returned("Decode", goroutines[g].arg, o)]
    /\ decoder' = HandleAfterCall(decoder)
    /\ UNCHANGED <<encoder, input, labelArg, call, prev, buffers, bufferPool>>

\* TextEncoder.GetEncoding
GoGetEncoding ==
  \E g \in Goroutines :
    /\ Ready(g)
    /\ encoder.made
    /\ goroutines' =
         [goroutines EXCEPT ![g] =
            Returned("TextEncoder.GetEncoding", EmptyStr,
                     [val |-> encoder.label, err |-> NoErr])]
    /\ encoder' = HandleAfterCall(encoder)
    /\ UNCHANGED <<decoder, input, labelArg, call, prev, buffers, bufferPool>>

InitConc ==
  /\ labelArg \in ConcArgs
  /\ encoder = NewTextEncoder(labelArg).val
  /\ decoder = NewTextDecoder(labelArg).val
  /\ goroutines = [g \in Goroutines |-> Waiting]
  /\ input = EmptyStr
  /\ call = NoCall
  /\ prev = NoCall
  /\ buffers = <<>>
  /\ bufferPool = {}

NextConc ==
  \/ GoEncodeUTF8
  \/ GoDecodeUTF8
  \/ GoEncodeUTF8ToBase64
  \/ GoDecodeUTF8FromBase64
  \/ GoEncodeBegin
  \/ GoEncodeFinish
  \/ GoDecodeBegin
  \/ GoDecodeFinish
  \/ GoGetEncoding

SpecConc == InitConc /\ [][NextConc]_vars

---------------------------------------------------------------------------
(* Well-formed UTF-8 as the Unicode Standard defines it (Table 3-7), used  *)
(* to state the properties; the model itself validates with Valid above.   *)

Cont(b) == b >= 128 /\ b <= 191

\* q is one well-formed byte sequence of Table 3-7
WellFormedRune(q) ==
  CASE Len(q) = 1 -> q[1] <= 127
    [] Len(q) = 2 -> q[1] >= 194 /\ q[1] <= 223 /\ Cont(q[2])
    [] Len(q) = 3 ->
         /\ \/ q[1] = 224 /\ q[2] >= 160 /\ q[2] <= 191
            \/ q[1] >= 225 /\ q[1] <= 236 /\ Cont(q[2])
            \/ q[1] = 237 /\ q[2] >= 128 /\ q[2] <= 159
            \/ q[1] >= 238 /\ q[1] <= 239 /\ Cont(q[2])
         /\ Cont(q[3])
    [] Len(q) = 4 ->
         /\ \/ q[1] = 240 /\ q[2] >= 144 /\ q[2] <= 191
            \/ q[1] >= 241 /\ q[1] <= 243 /\ Cont(q[2])
            \/ q[1] = 244 /\ q[2] >= 128 /\ q[2] <= 143
         /\ Cont(q[3])
         /\ Cont(q[4])
    [] OTHER -> FALSE

RECURSIVE WellFormedSeq(_)
WellFormedSeq(b) ==
  \/ Len(b) = 0
  \/ \E n \in 1..4 :
       /\ n <= Len(b)
       /\ WellFormedRune(SubSeq(b, 1, n))
       /\ WellFormedSeq(SubSeq(b, n + 1, Len(b)))

\* unit^rep \o body is well formed exactly when its first two copies of unit
\* followed by body are
WellFormed(s) ==
  WellFormedSeq((IF s.rep = 0 THEN <<>>
                 ELSE IF s.rep = 1 THEN s.unit ELSE s.unit \o s.unit) \o s.body)

SameBytes(a, b) == a.rep = b.rep /\ a.unit = b.unit /\ a.body = b.body

WithinLimit(s) == StrLen(s) <= MaxInputSize

---------------------------------------------------------------------------
(* Properties *)

\* C1: UTF-8 round trip.  For every well-formed string s of at most
\* MaxInputSize bytes EncodeUTF8(s) succeeds, and DecodeUTF8 of the bytes it
\* returned succeeds and gives back s.
C1_UTF8RoundTrip ==
  /\ (call.op = "EncodeUTF8" /\ WellFormed(call.in) /\ WithinLimit(call.in))
       => (call.err = NoErr /\ ~call.val.nil /\ SameBytes(call.val, call.in))
  /\ (call.op = "DecodeUTF8" /\ prev.op = "EncodeUTF8"
        /\ WellFormed(prev.in) /\ WithinLimit(prev.in))
       => (call.err = NoErr /\ call.val = prev.in)

\* a text of exactly MaxInputSize bytes went through both calls
C1_Witness ==
  /\ call.op = "DecodeUTF8" /\ prev.op = "EncodeUTF8"
  /\ StrLen(prev.in) = MaxInputSize
  /\ call.err = NoErr /\ call.val = prev.in

\* C2: Base64 round trip.  For every well-formed string s of at most
\* MaxInputSize bytes, lengths close to the limit included,
\* EncodeUTF8ToBase64(s) succeeds, and DecodeUTF8FromBase64 of the string it
\* returned succeeds and gives back s.
C2_Base64RoundTrip ==
  /\ (call.op = "EncodeUTF8ToBase64" /\ WellFormed(call.in) /\ WithinLimit(call.in))
       => call.err = NoErr
  /\ (call.op = "DecodeUTF8FromBase64" /\ prev.op = "EncodeUTF8ToBase64"
        /\ WellFormed(prev.in) /\ WithinLimit(prev.in))
       => (call.err = NoErr /\ call.val = prev.in)

InvalidStartByte(b, i) == b[i] >= 248
IsolatedContinuation(b, i) == Cont(b[i]) /\ (i = 1 \/ b[i - 1] < 128)
OverlongEncoding(b, i) ==
  /\ i < Len(b)
  /\ \/ b[i] \in {192, 193} /\ Cont(b[i + 1])
     \/ b[i] = 224 /\ b[i + 1] >= 128 /\ b[i + 1] <= 159
     \/ b[i] = 240 /\ b[i + 1] >= 128 /\ b[i + 1] <= 143
EncodedSurrogate(b, i) ==
  i < Len(b) /\ b[i] = 237 /\ b[i + 1] >= 160 /\ b[i + 1] <= 191
AboveMaxRune(b, i) ==
  \/ b[i] >= 245 /\ b[i] <= 247
  \/ i < Len(b) /\ b[i] = 244 /\ b[i + 1] >= 144 /\ b[i + 1] <= 191
TruncatedSequence(b, i) ==
  /\ b[i] >= 194 /\ b[i] <= 244
  /\ LET n == IF b[i] <= 223 THEN 2 ELSE IF b[i] <= 239 THEN 3 ELSE 4 IN
     \E k \in 1..(n - 1) : i + k > Len(b) \/ ~Cont(b[i + k])

IllFormedShape(b) ==
  \E i \in 1..Len(b) :
    \/ InvalidStartByte(b, i)
    \/ IsolatedContinuation(b, i)
    \/ OverlongEncoding(b, i)
    \/ EncodedSurrogate(b, i)
    \/ AboveMaxRune(b, i)
    \/ TruncatedSequence(b, i)

\* C8: UTF-8 validity predicate.  IsValidUTF8Bytes is true of the bytes
\* EncodeUTF8 returns for a well-formed string, and false of every byte
\* sequence that contains an invalid start byte (0xF8..0xFF), a truncated
\* multi-byte sequence, an overlong encoding, an isolated continuation byte,
\* an encoded surrogate or a code point above U+10FFFF.
C8_ValidityPredicate ==
  /\ (call.op = "IsValidUTF8Bytes" /\ prev.op = "EncodeUTF8" /\ WellFormed(prev.in))
       => (call.val = TRUE /\ call.err = NoErr)
  /\ (call.op = "IsValidUTF8Bytes" /\ IllFormedShape(call.in.body))
       => call.val = FALSE

\* IsValidUTF8Bytes said false of F4 90 80 80, a code point above U+10FFFF
C8_Witness ==
  /\ call.op = "IsValidUTF8Bytes"
  /\ call.in.body = <<244, 144, 128, 128>>
  /\ AboveMaxRune(call.in.body, 1)
  /\ call.val = FALSE /\ call.err = NoErr

---------------------------------------------------------------------------
(* The labels the interface section of the specification lists *)

Digit == <<"0", "1", "2", "3", "4", "5", "6", "7", "8", "9">>

\* the decimal numeral of n, 0 <= n <= 99
Numeral(n) ==
  IF n < 10 THEN <<Digit[n + 1]>> ELSE <<Digit[(n \div 10) + 1], Digit[(n % 10) + 1]>>

ListedLabels ==
  {<<"i", "s", "o", "-", "8", "8", "5", "9", "-">> \o Numeral(n) : n \in 1..16}
    \cup {<<"l", "a", "t", "i", "n">> \o Numeral(n) : n \in 1..10}
    \cup {<<"w", "i", "n", "d", "o", "w", "s", "-", "1", "2">> \o Numeral(n) : n \in 50..58}
    \cup {
        <<"u", "t", "f", "-", "8">>,
        <<"u", "t", "f", "8">>,
        <<"u", "t", "f", "-", "1", "6">>,
        <<"u", "t", "f", "1", "6">>,
        <<"u", "t", "f", "-", "1", "6", "l", "e">>,
        <<"u", "t", "f", "-", "1", "6", "b", "e">>,
        <<"k", "o", "i", "8", "-", "r">>,
        <<"k", "o", "i", "8", "-", "u">>,
        <<"s", "h", "i", "f", "t", "-", "j", "i", "s">>,
        <<"s", "h", "i", "f", "t", "_", "j", "i", "s">>,
        <<"s", "j", "i", "s">>,
        <<"e", "u", "c", "-", "j", "p">>,
        <<"e", "u", "c", "j", "p">>,
        <<"i", "s", "o", "-", "2", "0", "2", "2", "-", "j", "p">>,
        <<"i", "s", "o", "2", "0", "2", "2", "j", "p">>,
        <<"g", "b", "k">>,
        <<"g", "b", "1", "8", "0", "3", "0">>,
        <<"b", "i", "g", "5">>,
        <<"e", "u", "c", "-", "k", "r">>,
        <<"e", "u", "c", "k", "r">>,
        <<"i", "s", "o", "-", "2", "0", "2", "2", "-", "k", "r">>,
        <<"i", "s", "o", "2", "0", "2", "2", "k", "r">> }

\* the aliases the switch and the README have and that list has not
ExtraLabels == {<<"u", "t", "f", "1", "6", "l", "e">>, <<"u", "t", "f", "1", "6", "b", "e">>}

RECURSIVE TrimLeft(_)
TrimLeft(l) == IF l # <<>> /\ IsSpace(Head(l)) THEN TrimLeft(Tail(l)) ELSE l

RECURSIVE TrimRight(_)
TrimRight(l) ==
  IF l # <<>> /\ IsSpace(l[Len(l)]) THEN TrimRight(SubSeq(l, 1, Len(l) - 1)) ELSE l

\* the lower-cased, whitespace-trimmed form of a label
NormalForm(l) == LET t == TrimRight(TrimLeft(l)) IN [i \in 1..Len(t) |-> LowerRune(t[i])]

Rejected(c) == c.err = ErrUnsupported /\ c.val = NilEncoding

\* C3: registry success.  getEncoding returns a codec and no error for every
\* label the interface section lists, iso-8859-1 to iso-8859-16 and
\* iso-2022-kr / iso2022kr included.
C3_RegistrySuccess ==
  (call.op = "getEncoding" /\ call.in \in ListedLabels)
    => (call.err = NoErr /\ call.val # NilEncoding)

\* C4 as stated: getEncoding fails with the unsupported-encoding error for
\* every string whose normal form is not a listed label (of the Unicode
\* family exactly utf-8, utf8, utf-16, utf16, utf-16le, utf-16be).
C4_RegistryRejection ==
  (call.op = "getEncoding" /\ NormalForm(call.in) \notin ListedLabels)
    => Rejected(call)

\* C4 amended: getEncoding fails with the unsupported-encoding error for every
\* string whose normal form is neither a listed label nor utf16le or utf16be;
\* the empty string, blank strings, prefixes and extensions of labels fail.
C4_RegistryRejectionAmended ==
  (call.op = "getEncoding" /\ NormalForm(call.in) \notin (ListedLabels \cup ExtraLabels))
    => Rejected(call)

\* getEncoding refused a blank string, and the error carries the empty label
C4_Witness ==
  /\ call.op = "getEncoding"
  /\ call.in = <<" ">>
  /\ Rejected(call) /\ call.errArg = <<>>

\* C5: label normalization.  getEncoding(l) and IsValidEncoding(l) give the
\* outcome they give for the lower-cased, whitespace-trimmed form of l.
C5_LabelNormalization ==
  /\ call.op = "getEncoding"
       => LET n == getEncoding(NormalForm(call.in)) IN
          call.val = n.val /\ call.err = n.err /\ call.errArg = n.errArg
  /\ call.op = "IsValidEncoding"
       => call.val = IsValidEncoding(NormalForm(call.in))

\* " UTF-8 " resolved to the UTF-8 codec
C5_Witness ==
  /\ call.op = "getEncoding"
  /\ call.in = <<" ", "U", "T", "F", "-", "8", " ">>
  /\ call.val = "unicode.UTF8" /\ call.err = NoErr

\* C6: UTF-8 identity pass-through.  With a handle whose label resolved to the
\* UTF-8 codec, however the label is spelled, Encode returns exactly the bytes
\* of the text and Decode exactly the data, without the transcoder and without
\* error; hence Decode(Encode(s)) = s.
C6_UTF8PassThrough ==
  /\ (call.op = "Encode" /\ encoder.encoding = "unicode.UTF8")
       => (call.err = NoErr /\ ~call.viaCodec /\ SameBytes(call.val, call.in))
  /\ (call.op = "Decode" /\ decoder.encoding = "unicode.UTF8")
       => (call.err = NoErr /\ ~call.viaCodec /\ SameBytes(call.val, call.in))
  /\ (call.op = "Decode" /\ prev.op = "Encode"
        /\ encoder.encoding = "unicode.UTF8" /\ decoder.encoding = "unicode.UTF8")
       => (call.err = NoErr /\ call.val = prev.in)

Constructors == {"NewTextEncoder", "NewTextDecoder"}

\* the constructor was called with a non-empty label that does not resolve
UnresolvedArg == labelArg.given /\ labelArg.text # <<>> /\ ~IsValidEncoding(labelArg.text)

NoHandleMade == ~call.val.made /\ ~encoder.made /\ ~decoder.made

\* C9 as stated: constructing a TextEncoder or TextDecoder with a non-empty
\* label that does not resolve fails, gives no handle, and the error reads
\* "unsupported encoding: <label>" with the label as it was passed.
C9_UnsupportedAtConstruction ==
  (call.op \in Constructors /\ UnresolvedArg)
    => (call.err = ErrUnsupported /\ call.errArg = labelArg.text /\ NoHandleMade)

\* C9 amended: such a construction fails, gives no handle, and the error reads
\* "unsupported encoding: <label>" with the label lower-cased and trimmed.
C9_UnsupportedAtConstructionAmended ==
  (call.op \in Constructors /\ UnresolvedArg)
    => (call.err = ErrUnsupported /\ call.errArg = NormalForm(labelArg.text)
          /\ NoHandleMade)

\* new TextEncoder("INVALID-ENCODING") threw "unsupported encoding: invalid-encoding"
C9_Witness ==
  /\ call.op = "NewTextEncoder"
  /\ labelArg.text = <<"I", "N", "V", "A", "L", "I", "D", "-",
                       "E", "N", "C", "O", "D", "I", "N", "G">>
  /\ call.err = ErrUnsupported
  /\ call.errArg = <<"i", "n", "v", "a", "l", "i", "d", "-",
                     "e", "n", "c", "o", "d", "i", "n", "g">>
  /\ NoHandleMade

DefaultArg == ~labelArg.given \/ labelArg.text = <<>>

\* C10: default label.  Constructing a TextEncoder or TextDecoder with no
\* label argument or with "" succeeds, GetEncoding() of the handle returns
\* "utf-8", and the handle encodes and decodes as UTF-8.
C10_DefaultLabel ==
  /\ (DefaultArg /\ call.op \in Constructors) => (call.err = NoErr /\ call.val.made)
  /\ (DefaultArg /\ call.op \in {"TextEncoder.GetEncoding", "TextDecoder.GetEncoding"})
       => call.val = LblUTF8
  /\ (DefaultArg /\ call.op \in {"Encode", "Decode"})
       => (call.err = NoErr /\ SameBytes(call.val, call.in))
  /\ (DefaultArg /\ call.op = "Decode" /\ prev.op = "Encode")
       => call.val = prev.in

\* handles made without a label argument took a two-byte character through
\* Encode and Decode
C10_Witness ==
  /\ ~labelArg.given
  /\ encoder.label = LblUTF8 /\ decoder.label = LblUTF8
  /\ call.op = "Decode" /\ prev.op = "Encode"
  /\ prev.in = Str(0, <<>>, <<195, 160>>)
  /\ call.val = prev.in

\* the handle a GetEncoding call was made on
Asked == IF call.op = "TextEncoder.GetEncoding" THEN encoder ELSE decoder

LblLatin1 == <<"l", "a", "t", "i", "n", "1">>
LblISO88591 == <<"i", "s", "o", "-", "8", "8", "5", "9", "-", "1">>
LblSJIS == <<"s", "j", "i", "s">>
LblShiftJIS == <<"s", "h", "i", "f", "t", "-", "j", "i", "s">>

\* C11: canonical label.  GetEncoding() of a handle returns the normalized
\* canonical label of its codec: "iso-8859-1" for a handle built from "latin1"
\* or " ISO-8859-1 ", "shift-jis" for "sjis", "utf-8" for "UTF-8"; and any
\* handle with the same codec reports the same label.
C11_CanonicalLabel ==
  call.op \in {"TextEncoder.GetEncoding", "TextDecoder.GetEncoding"}
    => /\ call.val = NormalForm(call.val)
       /\ NormalForm(labelArg.text) \in {LblLatin1, LblISO88591} => call.val = LblISO88591
       /\ NormalForm(labelArg.text) \in {LblSJIS, LblShiftJIS} => call.val = LblShiftJIS
       /\ NormalForm(labelArg.text) \in {LblUTF8, LblUTF8NoDash} => call.val = LblUTF8
       /\ \A l \in TableLabels :
            getEncoding(l).val = Asked.encoding
              => NewTextEncoder([given |-> TRUE, text |-> l]).val.label = call.val

\* the elements of a list
Elements(list) == {list[i] : i \in 1..Len(list)}

\* the labels of the list GetSupportedEncodings returns
SupportedSet == Elements(GetSupportedEncodings)

\* the labels of the list that IsValidEncoding and getEncoding accept
AcceptedOfList ==
  {l \in SupportedSet : IsValidEncoding(l) /\ getEncoding(l).err = NoErr}

\* C12: supported-list agreement.  A lower-case trimmed label is accepted by
\* IsValidEncoding / getEncoding if and only if it is an element of the list
\* GetSupportedEncodings returns.
C12_SupportedListAgreement ==
  /\ (call.op = "GetSupportedEncodings")
       => /\ \A l \in Elements(call.val) : l \in AcceptedOfList
          /\ (labelArg.given /\ labelArg.text = NormalForm(labelArg.text))
               => /\ IsValidEncoding(labelArg.text) <=> labelArg.text \in Elements(call.val)
                  /\ getEncoding(labelArg.text).err = NoErr
                       <=> labelArg.text \in Elements(call.val)
  /\ (call.op = "IsValidEncoding" /\ call.in = NormalForm(call.in))
       => (call.val <=> call.in \in SupportedSet)
  /\ (call.op = "getEncoding" /\ call.in = NormalForm(call.in))
       => (call.err = NoErr <=> call.in \in SupportedSet)

\* the list was returned to a script holding the near miss "sji": the list
\* has the alias "sjis" and has not "sji", which IsValidEncoding refuses
C12_Witness ==
  /\ call.op = "GetSupportedEncodings"
  /\ labelArg.text = <<"s", "j", "i">>
  /\ LblSJIS \in Elements(call.val)
  /\ labelArg.text \notin Elements(call.val)
  /\ ~IsValidEncoding(labelArg.text)

\* C13: nil versus empty input.  DecodeUTF8 returns an error for a nil input,
\* and decodes an empty non-nil byte sequence to "" without error.
C13_NilVersusEmpty ==
  call.op = "DecodeUTF8"
    => /\ call.in.nil => call.err # NoErr
       /\ call.in = EmptyStr => (call.err = NoErr /\ call.val = EmptyStr)

\* the operations taking a text or a byte sequence
BytesResultOps == {"EncodeUTF8", "Encode"}
StringResultOps == {"DecodeUTF8", "Decode", "EncodeString", "EncodeUTF8ToBase64",
                    "DecodeUTF8FromBase64"}
CountOps == {"CountUTF8Bytes", "CountUTF8Runes", "UTF8ByteLength"}

CodecUTF16 == "unicode.UTF16(unicode.LittleEndian, unicode.UseBOM)"

\* C14: empty input is neutral.  On empty input every operation returns its
\* neutral result, without error and without calling the codec or the Base64
\* decoder: zero bytes from EncodeUTF8 and from Encode under every label, ""
\* from the decoders and the Base64 operations, 0 from the counters, true
\* from the validity predicates.
C14_EmptyInputNeutral ==
  /\ (call.op \in BytesResultOps /\ StrLen(call.in) = 0)
       => (call.err = NoErr /\ ~call.viaCodec /\ StrLen(call.val) = 0)
  /\ (call.op \in StringResultOps /\ StrLen(call.in) = 0)
       => (call.err = NoErr /\ ~call.viaCodec /\ call.val = EmptyStr)
  /\ (call.op \in CountOps /\ StrLen(call.in) = 0)
       => (call.err = NoErr /\ call.val = 0)
  /\ (call.op \in Predicates /\ StrLen(call.in) = 0)
       => (call.err = NoErr /\ call.val = TRUE)

\* the encoder of "utf-16", which writes a byte order mark before any text,
\* returned no byte for ""
C14_Witness ==
  /\ call.op = "Encode"
  /\ encoder.encoding = CodecUTF16
  /\ call.in = EmptyStr
  /\ call.val = EmptyStr /\ call.err = NoErr /\ ~call.viaCodec

\* C15 as stated: IsValidUTF8 and IsValidUTF8Bytes are total; for every input,
\* of any size and content, they return true or false and never an error.
C15_PredicatesTotal ==
  call.op \in Predicates => (call.err = NoErr /\ call.val \in BOOLEAN)

\* C15 amended: for every input of at most MaxInputSize bytes, of any content,
\* the two predicates return true or false and no error; for a longer input
\* they fail with the input-size error.
C15_PredicatesTotalAmended ==
  call.op \in Predicates
    => IF StrLen(call.in) <= MaxInputSize
       THEN call.err = NoErr /\ call.val \in BOOLEAN
       ELSE call.err = ErrTooLarge /\ call.val = FALSE

\* IsValidUTF8Bytes refused a sequence of MaxInputSize + 1 bytes
C15_Witness ==
  /\ call.op = "IsValidUTF8Bytes"
  /\ StrLen(call.in) = MaxInputSize + 1
  /\ call.err = ErrTooLarge

\* every byte of s is below 0x80
PureASCII(s) ==
  /\ \A i \in 1..Len(s.body) : s.body[i] < 128
  /\ s.rep > 0 => \A i \in 1..Len(s.unit) : s.unit[i] < 128

Base64Char(c) ==
  \/ c >= 65 /\ c <= 90
  \/ c >= 97 /\ c <= 122
  \/ c >= 48 /\ c <= 57
  \/ c = 43
  \/ c = 47

\* s is standard padded Base64: groups of four characters of the alphabet, the
\* last group ending in no, one or two '='
StandardBase64(s) ==
  LET t == IF s.rep = 0 THEN s.body ELSE s.unit \o s.body
      n == Len(t)
  IN /\ StrLen(s) % 4 = 0
     /\ \A i \in 1..(n - 2) : Base64Char(t[i])
     /\ n >= 2 =>
          \/ Base64Char(t[n - 1]) /\ (Base64Char(t[n]) \/ t[n] = 61)
          \/ t[n - 1] = 61 /\ t[n] = 61

\* s without its carriage returns and line feeds
Unwrapped(s) ==
  [s EXCEPT !.unit = SelectSeq(s.unit, LAMBDA c : c \notin {10, 13}),
            !.body = SelectSeq(s.body, LAMBDA c : c \notin {10, 13})]

\* C17 as stated: DecodeUTF8FromBase64 fails with "failed to decode base64"
\* for every non-empty input that is not standard padded Base64, and with
\* "decoded data is not valid UTF-8" exactly when the input is well-formed
\* Base64 whose decoded bytes are not valid UTF-8; a malformed input never
\* yields the UTF-8 error.
C17_Base64FailureClasses ==
  (call.op = "DecodeUTF8FromBase64" /\ StrLen(call.in) > 0)
    => /\ ~StandardBase64(call.in) => call.err = ErrInvalidBase64
       /\ call.err = ErrInvalidUTF8Base64
            <=> (StandardBase64(call.in) /\ ~WellFormed(DecodeString(call.in).val))

\* C17 amended: for a non-empty input of at most MaxInputSize characters,
\* with u the input without its CR and LF characters, DecodeUTF8FromBase64
\* fails with "failed to decode base64" if u is not standard padded Base64,
\* fails with "decoded data is not valid UTF-8" exactly when u is standard
\* padded Base64 whose decoded bytes are not valid UTF-8, and returns the
\* decoded text otherwise; a longer input fails with the input-size error.
C17_Base64FailureClassesAmended ==
  (call.op = "DecodeUTF8FromBase64" /\ StrLen(call.in) > 0)
    => IF StrLen(call.in) > MaxInputSize THEN call.err = ErrTooLarge
       ELSE LET u == Unwrapped(call.in)
                payload == DecodeString(call.in).val
            IN /\ ~StandardBase64(u) => call.err = ErrInvalidBase64
               /\ call.err = ErrInvalidUTF8Base64
                    <=> (StandardBase64(u) /\ ~WellFormed(payload))
               /\ (StandardBase64(u) /\ WellFormed(payload))
                    => (call.err = NoErr /\ call.val = payload)

\* "//==" is Base64 of the byte 0xFF: the payload error, not the Base64 error
C17_Witness ==
  /\ call.op = "DecodeUTF8FromBase64"
  /\ call.in = Str(0, <<>>, <<47, 47, 61, 61>>)
  /\ DecodeString(call.in).val = Str(0, <<>>, <<255>>)
  /\ call.err = ErrInvalidUTF8Base64

\* C18: size guard on every call path.  Every operation, the generic Encode,
\* EncodeString, Decode and UTF8ByteLength included, rejects an input of more
\* than MaxInputSize bytes before any processing or codec call.
C18_SizeGuardEverywhere ==
  (call.op \in BytesResultOps \cup StringResultOps \cup CountOps \cup Predicates
     /\ StrLen(call.in) > MaxInputSize)
    => (call.err = ErrTooLarge /\ ~call.viaCodec)

\* bytes of the UTF-8 form of the code point cp
EncodedLen(cp) == IF cp <= 127 THEN 1 ELSE IF cp <= 2047 THEN 2 ELSE IF cp <= 65535 THEN 3 ELSE 4

\* the sum of EncodedLen over the code points of a well-formed byte sequence
RECURSIVE CodePointBytes(_)
CodePointBytes(b) ==
  IF b = <<>> THEN 0
  ELSE IF b[1] < 128 THEN EncodedLen(b[1]) + CodePointBytes(SubSeq(b, 2, Len(b)))
  ELSE IF b[1] < 224
  THEN EncodedLen((b[1] - 192) * 64 + (b[2] - 128)) + CodePointBytes(SubSeq(b, 3, Len(b)))
  ELSE IF b[1] < 240
  THEN EncodedLen((b[1] - 224) * 4096 + (b[2] - 128) * 64 + (b[3] - 128))
         + CodePointBytes(SubSeq(b, 4, Len(b)))
  ELSE EncodedLen((b[1] - 240) * 262144 + (b[2] - 128) * 4096 + (b[3] - 128) * 64
                    + (b[4] - 128))
         + CodePointBytes(SubSeq(b, 5, Len(b)))

TextHello == Str(0, <<>>, <<72, 101, 108, 108, 111>>)
TextGlobe == Str(0, <<>>, <<240, 159, 140, 141>>)
TextVowels == Str(0, <<>>, <<195, 161, 195, 169, 195, 173, 195, 179, 195, 186>>)
TextHelloWorld ==
  Str(0, <<>>, <<72, 101, 108, 108, 111, 44, 32, 228, 184, 150, 231, 149, 140, 33>>)

AliasFamilies == {
  {<<"u", "t", "f", "-", "8">>, <<"u", "t", "f", "8">>},
  {<<"u", "t", "f", "-", "1", "6">>, <<"u", "t", "f", "1", "6">>},
  {<<"i", "s", "o", "-", "8", "8", "5", "9", "-", "1">>, <<"l", "a", "t", "i", "n", "1">>},
  {<<"s", "h", "i", "f", "t", "-", "j", "i", "s">>, <<"s", "h", "i", "f", "t", "_", "j", "i", "s">>, <<"s", "j", "i", "s">>},
  {<<"e", "u", "c", "-", "j", "p">>, <<"e", "u", "c", "j", "p">>},
  {<<"i", "s", "o", "-", "2", "0", "2", "2", "-", "j", "p">>, <<"i", "s", "o", "2", "0", "2", "2", "j", "p">>},
  {<<"e", "u", "c", "-", "k", "r">>, <<"e", "u", "c", "k", "r">>} }

\* the operations that are pure functions of their argument
PureOps == {"getEncoding", "IsValidEncoding"} \cup Predicates

TextHelloBlankWorld == Str(0, <<>>, <<72, 101, 108, 108, 111, 32, 87, 111, 114, 108, 100>>)
TextMixed ==
  Str(0, <<>>, <<72, 101, 108, 108, 111, 32, 240, 159, 140, 141, 32,
                 228, 184, 150, 231, 149, 140>>)

FacadeOps == {"EncodeUTF8", "EncodeUTF8ToBase64", "DecodeUTF8", "DecodeUTF8FromBase64",
              "CountUTF8Bytes", "CountUTF8Runes", "IsValidUTF8", "IsValidUTF8Bytes"}

\* C23: size check order and boundary.  In each operation of the UTF-8 facade
\* the size check comes before UTF-8 validation and before Base64 decoding: an
\* input of more than MaxInputSize bytes fails with the input-too-large error
\* whatever its content, and an input of exactly MaxInputSize bytes is never
\* rejected for its size.
C23_SizeCheckFirst ==
  call.op \in FacadeOps
    => /\ StrLen(call.in) > MaxInputSize
            => (call.err = ErrTooLarge /\ ~call.viaCodec)
       /\ StrLen(call.in) = MaxInputSize => call.err # ErrTooLarge

\* DecodeUTF8 was given MaxInputSize + 1 bytes that are not UTF-8 and reported
\* the size, not the bytes
C23_Witness ==
  /\ call.op = "DecodeUTF8"
  /\ StrLen(call.in) = MaxInputSize + 1
  /\ ~Valid(call.in)
  /\ call.err = ErrTooLarge

C25_NoPartialOutput ==
  /\ (call.op \in BytesResultOps /\ call.err # NoErr) => call.val = NilBytes
  /\ (call.op \in StringResultOps /\ call.err # NoErr) => call.val = EmptyStr
  /\ (call.op \in {"CountUTF8Bytes", "CountUTF8Runes"} /\ call.err # NoErr)
       => call.val = 0
  /\ (call.op \in Predicates /\ call.err # NoErr) => call.val = FALSE
  /\ (call.op = "Encode" /\ call.err # NoErr)
       => (call.err = ErrEncodeFailed /\ call.viaCodec)
  /\ (call.op = "Decode" /\ call.err # NoErr)
       => (call.err = ErrDecodeFailed /\ call.viaCodec)
  /\ (call.op = "EncodeString" /\ call.err # NoErr)
       => \E o \in Encode(encoder, call.in) : o.err = call.err /\ o.val = NilBytes

\* the codec of a handle rejected "Hello": EncodeString returned "" and the
\* error of Encode
C25_Witness ==
  /\ call.op = "EncodeString"
  /\ call.in = TextHello
  /\ call.err = ErrEncodeFailed
  /\ call.val = EmptyStr

\* C30: IsValidEncoding predicts construction.  For every label other than ""
\* constructing a TextEncoder or TextDecoder succeeds exactly when
\* IsValidEncoding of the label is true; "" is the only label with which
\* construction succeeds (as "utf-8") although IsValidEncoding reports false.
C30_ValidityPredictsConstruction ==
  /\ (call.op \in Constructors /\ labelArg.given /\ labelArg.text # <<>>)
       => /\ call.err = NoErr <=> IsValidEncoding(labelArg.text)
          /\ call.val.made <=> IsValidEncoding(labelArg.text)
  /\ (call.op \in Constructors /\ call.err = NoErr
        /\ ~IsValidEncoding(ArgLabel(labelArg)))
       => (ArgLabel(labelArg) = <<>> /\ call.val.label = LblUTF8)
  /\ (call.op \in Constructors /\ ArgLabel(labelArg) = <<>>)
       => (call.err = NoErr /\ call.val.label = LblUTF8)
  /\ (call.op = "IsValidEncoding" /\ call.in = <<>>) => call.val = FALSE

\* new TextDecoder("\t") threw, as IsValidEncoding("\t") = false foretold
C30_Witness ==
  /\ call.op = "NewTextDecoder"
  /\ labelArg.given /\ labelArg.text = <<"\t">>
  /\ call.err = ErrUnsupported
  /\ ~IsValidEncoding(labelArg.text)
  /\ ~call.val.made

LengthOps == {"UTF8ByteLength", "utf8ByteLengthJS", "utf8ByteLengthManual"}

\* C29: the byte-length implementations agree.  For every string s,
\* Utils.UTF8ByteLength(s), utf8ByteLengthJS(s) and utf8ByteLengthManual(s)
\* return the same value, the byte length len(s).
C29_ByteLengthsAgree ==
  call.op \in LengthOps => call.val = StrLen(call.in)

\* goroutines that hold a buffer: between getBuffer and the end of putBuffer
Holders == {g \in Goroutines : goroutines[g].pc \in {"holding", "reset"}}

\* C26: pooled buffers are always handed out empty.  After any sequence of
\* getBuffer, writes to held buffers and putBuffer calls by several goroutines
\* every buffer returned by getBuffer has length 0, and a buffer is reset
\* before it is available in the pool.
C26_HandedOutEmpty ==
  /\ \A g \in Holders : goroutines[g].seen = 0
  /\ \A b \in bufferPool : buffers[b].data = <<>>

\* a buffer that was written to and put back was handed out again, empty,
\* while another goroutine holds a buffer with content
C26_Witness ==
  \E g \in Holders : \E h \in Holders :
    /\ g # h
    /\ goroutines[g].pc = "holding"
    /\ goroutines[g].reused /\ goroutines[g].seen = 0
    /\ buffers[goroutines[g].buf].written
    /\ buffers[goroutines[g].buf].data = <<>>
    /\ buffers[goroutines[h].buf].data # <<>>

\* C27: exclusive buffer ownership.  With every acquired buffer released by
\* one putBuffer and not used after it, no buffer is held by two goroutines
\* at the same time, and no held buffer is idle in the pool: getBuffer yields
\* a fresh buffer or one that no one holds.
C27_ExclusiveOwnership ==
  /\ \A g \in Holders : \A h \in Holders :
       g # h => goroutines[g].buf # goroutines[h].buf
  /\ \A g \in Holders : goroutines[g].buf \notin bufferPool
  /\ \A g \in Holders : goroutines[g].buf \in 1..Len(buffers)

\* two goroutines hold a buffer each, one of them a buffer taken from the
\* pool, while the pool is empty
C27_Witness ==
  /\ Holders = Goroutines
  /\ \E g \in Holders : goroutines[g].reused
  /\ bufferPool = {}

\* C28: pool use during transcoding.  Each Encode or Decode call on a
\* non-UTF-8 codec acquires its scratch buffer from the pool with getBuffer
\* and releases it with putBuffer before it returns: once such a call has
\* returned, the pool has allocated a buffer and no goroutine holds one.
C28_PoolUseDuringTranscoding ==
  (call.op \in {"Encode", "Decode"} /\ call.viaCodec)
    => /\ Len(buffers) > 0
       /\ \A g \in DOMAIN goroutines : goroutines[g].buf = NoBuffer

\* the results of a call of op on a run alone, on the handles as constructed
Alone(op, a) ==
  LET te == NewTextEncoder(labelArg).val
      td == NewTextDecoder(labelArg).val
  IN CASE op = "EncodeUTF8" -> {Returned(op, a, EncodeUTF8(a)).res}
       [] op = "DecodeUTF8" -> {Returned(op, a, DecodeUTF8(a)).res}
       [] op = "EncodeUTF8ToBase64" -> {Returned(op, a, EncodeUTF8ToBase64(a)).res}
       [] op = "DecodeUTF8FromBase64" -> {Returned(op, a, DecodeUTF8FromBase64(a)).res}
       [] op = "Encode" -> Encode(te, a)
       [] op = "Decode" -> Decode(td, a)
       [] op = "TextEncoder.GetEncoding" -> {[val |-> te.label, err |-> NoErr, viaCodec |-> FALSE]}

\* C21: concurrent use.  When several goroutines run EncodeUTF8, DecodeUTF8,
\* EncodeUTF8ToBase64, DecodeUTF8FromBase64, Encode or Decode on shared
\* handles at the same time, in any interleaving, every call returns the
\* result it would return if run alone, and Encode, Decode and GetEncoding
\* leave the label and the codec of the handle unchanged.
C21_ConcurrentUse ==
  /\ \A g \in DOMAIN goroutines :
       goroutines[g].pc = "returned"
         => goroutines[g].res \in Alone(goroutines[g].op, goroutines[g].arg)
  /\ encoder = NewTextEncoder(labelArg).val
  /\ decoder = NewTextDecoder(labelArg).val

\* on handles labelled "UTF-8" one goroutine's Encode has returned from the
\* transcoder while another goroutine is inside Decode
C21_Witness ==
  /\ labelArg.text = <<"U", "T", "F", "-", "8">>
  /\ \E g \in DOMAIN goroutines : \E h \in DOMAIN goroutines :
       /\ g # h
       /\ goroutines[g].pc = "returned" /\ goroutines[g].op = "Encode"
       /\ goroutines[g].res.viaCodec /\ goroutines[g].res.err = NoErr
       /\ goroutines[h].pc = "transcoding" /\ goroutines[h].op = "Decode"
===========================================================================
